---- MODULE Spec2Model ----
(***************************************************************************)
(* Schema detection and reconciliation engine of cs_data_processor:       *)
(* the confidence-scored type classifiers (detect_chat_data_type,         *)
(* detect_case_data_type, the single-pass detect_data_type copies and the *)
(* detect_data_type router of main), the column mappers, the value        *)
(* coercions over a column, and the master-table builders                 *)
(* (process_chat_files, process_case_files, process_rating_files).        *)
(*                                                                         *)
(* Strings are TLA+ strings; substring tests, lower() and strip() are     *)
(* computed character by character.  Python floats are IEEE-754 binary64  *)
(* values, held exactly as an integer number of units of 2^-56 in two     *)
(* 28-bit limbs, and added with round-to-nearest-even as the hardware     *)
(* does.                                                                   *)
(***************************************************************************)
EXTENDS Integers, Sequences, FiniteSets, TLC

VARIABLES
    pc,           \* position of the running function
    df_columns,   \* classifier input: df.columns of the sheet, in order
    filename,     \* classifier input: the filename hint
    detector,     \* which copy of the detector runs (its rule table)
    columns,      \* [col.lower().strip() for col in df.columns]
    results,      \* results dict: sequence of [type, confidence, indicators]
    best_type,    \* max(results.keys(), key=confidence)
    detected,     \* the record type the detector returns
    all_results,  \* main.detect_data_type: chat_results, then the dict it returns
    family,       \* which function runs: "classify", "chat", "case", "rating", ...
    submitted,    \* the builder's input as the caller submitted it
    file_data_list,    \* builder input: the list of file_info, or the rating arguments
    pos,          \* the element of file_data_list the loop is at
    all_data,     \* all_chat_data / all_case_data / dfs
    total_source_rows, \* the running sum of len(df) over the qualifying sheets
    row_errors,   \* how many row-count checks printed a mismatch
    master,       \* what the builder returned
    mapper,       \* which column mapper ran
    record_type,  \* column mapper input: the record type of the sheet
    column_mapping,    \* the dict the mapper returns: <<target, source>> in insertion order
    coercer,      \* which coercion runs over the column
    trail         \* the column as read, then after each pass of the coercion

classifyVars == <<df_columns, filename, detector, columns, results, best_type, detected,
                  all_results>>

buildVars == <<family, submitted, file_data_list, pos, all_data, total_source_rows, row_errors, master>>

mapVars == <<mapper, record_type, column_mapping>>

coerceVars == <<coercer, trail>>

vars == <<pc, df_columns, filename, detector, columns, results, best_type, detected,
          all_results, family, submitted, file_data_list, pos, all_data, total_source_rows,
          row_errors, master, mapper, record_type, column_mapping, coercer, trail>>

----------------------------------------------------------------------------
(* Strings *)

UpperChars == "ABCDEFGHIJKLMNOPQRSTUVWXYZ"
LowerChars == "abcdefghijklmnopqrstuvwxyz"

\* `p in s` of Python for strings
Contains(s, p) ==
    \E i \in 1..(Len(s) - Len(p) + 1) : SubSeq(s, i, i + Len(p) - 1) = p

\* the lowercase of each capital letter
LowerTable ==
    [c \in {SubSeq(UpperChars, i, i) : i \in 1..Len(UpperChars)} |->
        LET i == CHOOSE j \in 1..Len(UpperChars) : SubSeq(UpperChars, j, j) = c
        IN  SubSeq(LowerChars, i, i)]

LowerChar(c) == IF c \in DOMAIN LowerTable THEN LowerTable[c] ELSE c

\* str.lower()
RECURSIVE Lower(_)
Lower(s) ==
    IF Len(s) = 0 THEN ""
    ELSE LowerChar(SubSeq(s, 1, 1)) \o Lower(SubSeq(s, 2, Len(s)))

\* str.strip(): leading and trailing whitespace removed
RECURSIVE Strip(_)
Strip(s) ==
    IF Len(s) = 0 THEN ""
    ELSE IF SubSeq(s, 1, 1) = " " THEN Strip(SubSeq(s, 2, Len(s)))
    ELSE IF SubSeq(s, Len(s), Len(s)) = " " THEN Strip(SubSeq(s, 1, Len(s) - 1))
    ELSE s

----------------------------------------------------------------------------
(* Python floats: binary64 values in [0, 2), as hi * 2^28 + lo units of    *)
(* 2^-56.                                                                  *)

Limb == 16384 * 16384      \* 2^28

Dbl(hi, lo) == [hi |-> hi, lo |-> lo]

FZero == Dbl(0, 0)
FOne  == Dbl(268435456, 0)             \* 1.0
F01   == Dbl(26843545, 161061274)      \* 0.1 = 0x1.999999999999ap-4
F06   == Dbl(161061273, 161061272)     \* 0.6 = 0x1.3333333333333p-1
F07   == Dbl(187904819, 53687088)      \* 0.7 = 0x1.6666666666666p-1
F08   == Dbl(214748364, 214748368)     \* 0.8 = 0x1.999999999999ap-1

FLess(a, b) == a.hi < b.hi \/ (a.hi = b.hi /\ a.lo < b.lo)
FLeq(a, b)  == ~FLess(b, a)

\* the spacing of binary64 values around a value with high limb hi, in units
\* of 2^-56: 53 significant bits
Ulp(hi) ==
    IF hi >= 268435456 THEN 16
    ELSE IF hi >= 134217728 THEN 8
    ELSE IF hi >= 67108864 THEN 4
    ELSE IF hi >= 33554432 THEN 2
    ELSE 1

\* round the exact value hi * 2^28 + lo to a multiple of q, ties to even
RoundTo(hi, lo, q) ==
    LET r    == lo % q
        down == lo - r
        up   == down + q
        odd  == (down \div q) % 2 = 1
        lo2  == IF 2 * r < q THEN down
                ELSE IF 2 * r > q THEN up
                ELSE IF odd THEN up ELSE down
    IN  IF lo2 >= Limb THEN Dbl(hi + 1, lo2 - Limb) ELSE Dbl(hi, lo2)

\* a + b of two floats
FAdd(a, b) ==
    LET lo == a.lo + b.lo
        c  == lo \div Limb
        hi == a.hi + b.hi + c
    IN  RoundTo(hi, lo % Limb, Ulp(hi))

\* min(a, b) of Python: b only when b < a
FMin(a, b) == IF FLess(b, a) THEN b ELSE a

\* (k / n) * w for the weights w = 0.6 and w = 0.3 and 0 <= k <= n <= 3:
\* the binary64 quotient k / n times the binary64 weight, rounded once each
Weighted06(k, n) ==
    IF k = 0 THEN FZero
    ELSE IF k = n THEN F06                                   \* 1.0 * 0.6
    ELSE IF 2 * k = n THEN Dbl(80530636, 214748364)          \* 0.5 * 0.6 = 0.3
    ELSE IF 3 * k = n THEN Dbl(53687091, 53687090)           \* 0.19999999999999998
    ELSE Dbl(107374182, 107374180)                           \* 0.39999999999999997

Weighted03(k, n) ==
    IF k = 0 THEN FZero
    ELSE IF k = n THEN Dbl(80530636, 214748364)              \* 1.0 * 0.3 = 0.3
    ELSE IF 2 * k = n THEN Dbl(40265318, 107374182)          \* 0.5 * 0.3 = 0.15
    ELSE IF 3 * k = n THEN Dbl(26843545, 161061273)          \* 0.09999999999999999
    ELSE Dbl(53687091, 53687090)                             \* 0.19999999999999998

----------------------------------------------------------------------------
(* The detection rule tables, in declaration order *)

Rule(t, req, strong, chan, minc) ==
    [type |-> t, required |-> req, strong_indicators |-> strong,
     channel_indicators |-> chan, min_confidence |-> minc]

line_chat_rule ==
    Rule("line_chat",
         <<"chat transcript id", "social account: name">>,
         <<"started by", "open chat unique id", "ready to assign (line)">>,
         <<"line">>, F07)

wechat_chat_rule ==
    Rule("wechat_chat",
         <<"wechat agent", "follower name">>,
         <<"agent assigned time", "agent first response time (seconds)">>,
         <<"wechat">>, F07)

live_chat_rule ==
    Rule("live_chat",
         <<"chat key", "agent", "start time">>,
         <<"visitor ip address", "browser language", "chat origin url">>,
         <<"sf", "live">>, F06)

messaging_rule ==
    Rule("messaging",
         <<"messaging session name", "session owner: full name">>,
         <<"messaging user: contact: full name", "messaging channel: channel name",
           "accept time">>,
         <<"messaging", "session">>, F07)

\* case_data with the 0.7 floor of the chat types
case_data_rule_floor07 ==
    Rule("case_data",
         <<"case number", "case owner">>,
         <<"case reason", "case status", "case: created date/time">>,
         <<"case">>, F07)

case_data_rule ==
    Rule("case_data",
         <<"case number", "case owner">>,
         <<"case reason", "case status", "case: created date/time">>,
         <<"case">>, F08)

chat_rating_rule ==
    Rule("chat_rating",
         <<"rating", "chatkey">>,
         <<"post-chat rating", "getfeedback">>,
         <<"chat">>, F07)

case_rating_rule ==
    Rule("case_rating",
         <<"rating", "case">>,
         <<"feedback created date", "outcome">>,
         <<"case">>, F07)

\* chat_processor.detect_chat_data_type
ChatRules == <<line_chat_rule, wechat_chat_rule, live_chat_rule, messaging_rule>>
\* case_processor.detect_case_data_type
CaseRules == <<case_data_rule>>
\* cs_dashboard_app.detect_data_type
DashboardRules == <<line_chat_rule, wechat_chat_rule, live_chat_rule,
                    case_data_rule, chat_rating_rule, case_rating_rule>>
\* cs_data_processor_flask.detect_data_type
FlaskRules == <<line_chat_rule, wechat_chat_rule, live_chat_rule, case_data_rule>>

Detectors == {"chat", "case", "dashboard", "flask"}

\* main.detect_data_type runs the chat detector ("main") and, when that
\* answers unknown, the case detector ("main_case")
Routers == {"main", "main_case"}

detection_rules(d) ==
    CASE d = "chat" -> ChatRules
      [] d = "case" -> CaseRules
      [] d = "dashboard" -> DashboardRules
      [] d = "flask" -> FlaskRules
      [] d = "main" -> ChatRules
      [] d = "main_case" -> CaseRules

----------------------------------------------------------------------------
(* The scoring loop body and the selection of the detectors *)

\* all(frag in col for col in columns)
AllCol(frag, cols) == \A i \in 1..Len(cols) : Contains(cols[i], frag)

\* any(frag in col for col in columns)
AnyCol(frag, cols) == \E i \in 1..Len(cols) : Contains(cols[i], frag)

\* the fragments of frags some column contains, in declaration order
Matched(frags, cols) == SelectSeq(frags, LAMBDA f : AnyCol(f, cols))

Tagged(tag, frags) == [i \in 1..Len(frags) |-> tag \o frags[i]]

\* the channel loop: the first channel fragment found in the lowercased
\* filename or in a column, as a sequence of at most one element (break)
ChannelHit(chans, fname, cols) ==
    LET filename_lower == Lower(fname)
        hits == {i \in 1..Len(chans) :
                    Contains(filename_lower, chans[i]) \/ AnyCol(chans[i], cols)}
    IN  IF hits = {} THEN <<>>
        ELSE <<chans[CHOOSE i \in hits : \A j \in hits : i <= j]>>

\* ScoreRule without the `if required_matches == 0: ... continue` gate
ScoreRuleNoGate(rule, cols, fname) ==
    LET req    == Matched(rule.required, cols)
        strong == Matched(rule.strong_indicators, cols)
        chan   == ChannelHit(rule.channel_indicators, fname, cols)
        base   == Weighted06(Len(req), Len(rule.required))
        bonus  == FAdd(base, Weighted03(Len(strong), Len(rule.strong_indicators)))
        conf   == IF chan = <<>> THEN bonus ELSE FAdd(bonus, F01)
    IN  [type |-> rule.type, confidence |-> FMin(conf, FOne),
         indicators |-> Tagged("Required: ", req) \o Tagged("Strong: ", strong)
                        \o Tagged("Channel: ", chan)]

\* one iteration of `for data_type, rules in detection_rules.items()`
ScoreRule(rule, cols, fname) ==
    LET req    == Matched(rule.required, cols)
        strong == Matched(rule.strong_indicators, cols)
        chan   == ChannelHit(rule.channel_indicators, fname, cols)
        base   == Weighted06(Len(req), Len(rule.required))
        bonus  == FAdd(base, Weighted03(Len(strong), Len(rule.strong_indicators)))
        conf   == IF chan = <<>> THEN bonus ELSE FAdd(bonus, F01)
    IN  IF Len(req) = 0
        THEN [type |-> rule.type, confidence |-> FZero, indicators |-> <<>>]
        ELSE [type |-> rule.type, confidence |-> FMin(conf, FOne),
              indicators |-> Tagged("Required: ", req) \o Tagged("Strong: ", strong)
                             \o Tagged("Channel: ", chan)]

\* a max that keeps the later of two equal keys
BestIndexLast(res) ==
    LET F[i \in 1..Len(res)] ==
            IF i = 1 THEN 1
            ELSE IF FLeq(res[F[i - 1]].confidence, res[i].confidence)
                 THEN i ELSE F[i - 1]
    IN  F[Len(res)]

\* max(results.keys(), key=lambda x: results[x]['confidence']): the keys are
\* visited in insertion order and the running maximum is replaced only by a
\* strictly greater key
BestIndex(res) ==
    LET F[i \in 1..Len(res)] ==
            IF i = 1 THEN 1
            ELSE IF FLess(res[F[i - 1]].confidence, res[i].confidence)
                 THEN i ELSE F[i - 1]
    IN  F[Len(res)]

\* a selection that falls back to the first type meeting its own threshold
DecideFallback(rules, res) ==
    LET b  == BestIndex(res)
        ok == {i \in 1..Len(res) : FLeq(rules[i].min_confidence, res[i].confidence)}
    IN  IF b \in ok THEN res[b].type
        ELSE IF ok = {} THEN "unknown"
        ELSE res[CHOOSE i \in ok : \A j \in ok : i <= j].type

\* best_confidence < detection_rules[best_type]['min_confidence'] returns
\* 'unknown', anything else the best type
Decide(rules, res) ==
    LET b == BestIndex(res)
    IN  IF FLess(res[b].confidence, rules[b].min_confidence)
        THEN "unknown" ELSE res[b].type

----------------------------------------------------------------------------
(* Classifier inputs *)

MaxHeaders == 2

\* headers as the exports spell them
HeaderPool ==
    <<"Chat Key", "Agent", "Start Time", "Visitor IP Address",
      "Browser Language", "Chat Origin URL",
      "Chat Transcript ID", "Social Account: Name", "Started By",
      "WeChat Agent: Agent Nickname", "Messaging Session Name",
      "Case Number", "Case Owner", "Case Reason", "Case Status",
      " Rating ", "Outcome", "Subject">>

\* whole exports: index sets into HeaderPool
LiveExport == 1..6
LineExport == 7..9
CaseExport == 12..15
Exports == {LiveExport, LineExport, CaseExport,
            LiveExport \cup LineExport, LiveExport \cup CaseExport,
            (1..3) \cup (7..8), (1..3) \cup (12..13), (1..4) \cup (7..8)}

SmallSheets == {I \in SUBSET (1..Len(HeaderPool)) : Cardinality(I) <= MaxHeaders}

SheetOf(I) ==
    LET P == HeaderPool
        F[i \in 0..Len(P)] ==
            IF i = 0 THEN <<>>
            ELSE IF i \in I THEN Append(F[i - 1], P[i]) ELSE F[i - 1]
    IN  F[Len(P)]

Sheets == {SheetOf(I) : I \in SmallSheets \cup Exports}

FileNames == {"", "SF_live_export.xlsx", "LINE cases.xlsx"}

----------------------------------------------------------------------------
(* The detector as a state machine *)

InitClassify ==
    /\ pc = "start"
    /\ df_columns \in Sheets
    /\ filename \in FileNames
    /\ detector \in Detectors \cup {"main"}
    /\ columns = <<>>
    /\ results = <<>>
    /\ best_type = "none"
    /\ detected = "none"
    /\ all_results = <<>>
    /\ family = "classify"
    /\ mapper = "none"
    /\ record_type = "none"
    /\ column_mapping = <<>>
    /\ coercer = "none"
    /\ trail = <<>>
    /\ submitted = <<>>
    /\ file_data_list = <<>>
    /\ pos = 0
    /\ all_data = <<>>
    /\ total_source_rows = 0
    /\ row_errors = 0
    /\ master = [kind |-> "unset"]

\* columns = [col.lower().strip() for col in df.columns]
NormalizeColumns ==
    /\ pc = "start"
    /\ columns' = [i \in 1..Len(df_columns) |-> Strip(Lower(df_columns[i]))]
    /\ pc' = "score"
    /\ UNCHANGED <<df_columns, filename, detector, results, best_type, detected,
                   all_results>>
    /\ UNCHANGED <<buildVars, mapVars, coerceVars>>

\* one iteration of the loop over detection_rules
ScoreNext ==
    /\ pc = "score"
    /\ LET rules == detection_rules(detector)
           k     == Len(results) + 1
       IN  /\ results' = Append(results, ScoreRule(rules[k], columns, filename))
           /\ pc' = IF k = Len(rules) THEN "select" ELSE "score"
    /\ UNCHANGED <<df_columns, filename, detector, columns, best_type, detected,
                   all_results>>
    /\ UNCHANGED <<buildVars, mapVars, coerceVars>>

\* what detect_data_type returns next to the type: the results of the
\* detector that answered, or {**chat_results, **case_results}
Returned_results(d, answer, chat_results, res) ==
    IF d \notin Routers THEN chat_results
    ELSE IF d = "main_case" /\ answer = "unknown" THEN chat_results \o res
    ELSE res

\* best_type = max(...); the threshold test; return
SelectBest ==
    /\ pc = "select"
    /\ ~(detector = "main" /\ Decide(detection_rules(detector), results) = "unknown")
    /\ best_type' = results[BestIndex(results)].type
    /\ detected' = Decide(detection_rules(detector), results)
    /\ all_results' = Returned_results(detector, detected', all_results, results)
    /\ pc' = "done"
    /\ UNCHANGED <<df_columns, filename, detector, columns, results>>
    /\ UNCHANGED <<buildVars, mapVars, coerceVars>>

\* detect_data_type: the chat detector answered unknown, so the case
\* detector is run on the same sheet and filename
TryCaseDetection ==
    /\ pc = "select"
    /\ detector = "main"
    /\ Decide(detection_rules(detector), results) = "unknown"
    /\ best_type' = results[BestIndex(results)].type
    /\ all_results' = results
    /\ detector' = "main_case"
    /\ results' = <<>>
    /\ columns' = <<>>
    /\ pc' = "start"
    /\ UNCHANGED <<df_columns, filename, detected>>
    /\ UNCHANGED <<buildVars, mapVars, coerceVars>>

NextClassify == NormalizeColumns \/ ScoreNext \/ SelectBest \/ TryCaseDetection

SpecClassify == InitClassify /\ [][NextClassify]_vars

----------------------------------------------------------------------------
(* Cell values of a DataFrame *)

None == [k |-> "None"]                  \* Python None
NaN  == [k |-> "NaN"]                   \* float('nan'): an empty spreadsheet cell
NaT  == [k |-> "NaT"]                   \* pandas.NaT
Str(s) == [k |-> "str", s |-> s]
IntV(n) == [k |-> "int", n |-> n]       \* an integer
Flt(h) == [k |-> "float", h |-> h]      \* a float, in hundredths
Big(s) == [k |-> "bigfloat", s |-> s]   \* a float beyond the fixed-point range, by its digits
\* a Timestamp: whole days since 1899-12-30 and the minute of the day
Ts(d, m) == [k |-> "ts", day |-> d, min |-> m]
DateOf(d) == [k |-> "date", day |-> d]  \* a datetime.date

\* pd.isna / Series.isna
IsNa(c) == c.k \in {"None", "NaN", "NaT"}

IsNumber(c) == c.k \in {"int", "float", "bigfloat"}

Digits == "0123456789"

IsDigit(ch) == \E i \in 1..10 : SubSeq(Digits, i, i) = ch
DigitVal(ch) == (CHOOSE i \in 1..10 : SubSeq(Digits, i, i) = ch) - 1

AllDigits(s) == Len(s) > 0 /\ \A i \in 1..Len(s) : IsDigit(SubSeq(s, i, i))

RECURSIVE ParseNat(_)
ParseNat(s) ==
    IF Len(s) = 0 THEN 0
    ELSE 10 * ParseNat(SubSeq(s, 1, Len(s) - 1)) + DigitVal(SubSeq(s, Len(s), Len(s)))

RECURSIVE NatStr(_)
NatStr(n) ==
    IF n < 10 THEN SubSeq(Digits, n + 1, n + 1)
    ELSE NatStr(n \div 10) \o SubSeq(Digits, (n % 10) + 1, (n % 10) + 1)

\* the longest digit string the fixed-point numbers hold
MaxDigits == 7

\* the position of the first "." of s, 0 when there is none
DotAt(s) ==
    IF \E i \in 1..Len(s) : SubSeq(s, i, i) = "."
    THEN CHOOSE i \in 1..Len(s) :
            /\ SubSeq(s, i, i) = "."
            /\ \A j \in 1..(i - 1) : SubSeq(s, j, j) # "."
    ELSE 0

\* the float a numeric string denotes, NaN when it denotes none: digits with
\* an optional fraction of one or two digits
ParseFloat(s0) ==
    LET s == Strip(s0)
        d == DotAt(s)
        ip == IF d = 0 THEN s ELSE SubSeq(s, 1, d - 1)
        fp == IF d = 0 THEN "" ELSE SubSeq(s, d + 1, Len(s))
    IN  IF ~AllDigits(ip) THEN NaN
        ELSE IF d # 0 /\ ~(AllDigits(fp) /\ Len(fp) <= 2) THEN NaN
        ELSE IF Len(ip) > MaxDigits THEN Big(ip)
        ELSE Flt(100 * ParseNat(ip)
                 + (IF Len(fp) = 0 THEN 0
                    ELSE IF Len(fp) = 1 THEN 10 * ParseNat(fp) ELSE ParseNat(fp)))

\* str(x) of a float in hundredths: "12.0", "12.5", "12.25"
FloatStr(h) ==
    LET f == h % 100
    IN  NatStr(h \div 100) \o "." \o
        (IF f % 10 = 0 THEN NatStr(f \div 10)
         ELSE IF f < 10 THEN "0" \o NatStr(f) ELSE NatStr(f))

----------------------------------------------------------------------------
(* The calendar: days since 1899-12-30 *)

EpochShift == 25569         \* 1970-01-01 as a day count from 1899-12-30

IsLeap(y) == (y % 4 = 0 /\ y % 100 # 0) \/ y % 400 = 0

DaysInMonth(y, m) ==
    IF m = 2 THEN (IF IsLeap(y) THEN 29 ELSE 28)
    ELSE IF m \in {4, 6, 9, 11} THEN 30 ELSE 31

ValidDate(y, m, d) == m \in 1..12 /\ d >= 1 /\ d <= DaysInMonth(y, m)

\* day count of the civil date y-m-d
SerialOf(y, m, d) ==
    LET yy  == IF m <= 2 THEN y - 1 ELSE y
        era == yy \div 400
        yoe == yy - era * 400
        mp  == IF m > 2 THEN m - 3 ELSE m + 9
        doy == (153 * mp + 2) \div 5 + d - 1
        doe == yoe * 365 + yoe \div 4 - yoe \div 100 + doy
    IN  era * 146097 + doe - 719468 + EpochShift

\* the civil date <<y, m, d>> of a day count
CivilOf(serial) ==
    LET z   == serial - EpochShift + 719468
        era == z \div 146097
        doe == z - era * 146097
        yoe == (doe - doe \div 1460 + doe \div 36524 - doe \div 146096) \div 365
        doy == doe - (365 * yoe + yoe \div 4 - yoe \div 100)
        mp  == (5 * doy + 2) \div 153
        d   == doy - (153 * mp + 2) \div 5 + 1
        m   == IF mp < 10 THEN mp + 3 ELSE mp - 9
        y   == yoe + era * 400 + (IF m <= 2 THEN 1 ELSE 0)
    IN  <<y, m, d>>

\* Monday = 1 .. Sunday = 7
IsoWeekday(serial) == ((serial - EpochShift + 3) % 7) + 1

MonthNames == <<"January", "February", "March", "April", "May", "June", "July",
                "August", "September", "October", "November", "December">>
DayNames == <<"Monday", "Tuesday", "Wednesday", "Thursday", "Friday",
              "Saturday", "Sunday">>

\* the number of ISO weeks of a year
IsoWeeksIn(y) ==
    LET jan1 == IsoWeekday(SerialOf(y, 1, 1))
    IN  IF jan1 = 4 \/ (jan1 = 3 /\ IsLeap(y)) THEN 53 ELSE 52

\* dt.isocalendar().week
IsoWeek(serial) ==
    LET c   == CivilOf(serial)
        doy == serial - SerialOf(c[1], 1, 1) + 1
        w   == (doy - IsoWeekday(serial) + 10) \div 7
    IN  IF w < 1 THEN IsoWeeksIn(c[1] - 1)
        ELSE IF w > IsoWeeksIn(c[1]) THEN 1
        ELSE w

----------------------------------------------------------------------------
(* Value coercion, cell by cell *)

\* a numeric coercion that fills what does not parse with 0
ToNumericFillingZero(c) ==
    CASE c.k = "int" -> Flt(100 * c.n)
      [] c.k = "float" -> c
      [] c.k = "bigfloat" -> c
      [] c.k = "str" -> (IF ParseFloat(c.s) = NaN THEN Flt(0) ELSE ParseFloat(c.s))
      [] OTHER -> Flt(0)

\* pd.to_numeric(errors='coerce') of one cell
ToNumeric(c) ==
    CASE c.k = "int" -> Flt(100 * c.n)
      [] c.k = "float" -> c
      [] c.k = "bigfloat" -> c
      [] c.k = "str" -> ParseFloat(c.s)
      [] OTHER -> NaN

\* x * 60 of one cell of an object or numeric column: a str is repeated
Times60(c) ==
    LET Rep[n \in 0..60] == IF n = 0 THEN "" ELSE Rep[n - 1] \o c.s
    IN  CASE c.k = "int" -> IntV(60 * c.n)
          [] c.k = "float" -> Flt(60 * c.h)
          [] c.k = "str" -> Str(Rep[60])
          [] OTHER -> NaN

\* the serial counted from 1900-01-01
FromSerial1900(c) ==
    IF c.k = "int" THEN Ts(c.n + 2, 0)
    ELSE Ts((c.h \div 100) + 2, ((c.h % 100) * 1440) \div 100)

\* base_date + timedelta(days=x): the fraction of a day to the minute
FromSerial(c) ==
    IF c.k = "int" THEN Ts(c.n, 0)
    ELSE Ts(c.h \div 100, ((c.h % 100) * 1440) \div 100)

\* the fields <<a, b, year, minute of day>> of "a/b/yyyy" or "a/b/yyyy hh:mm",
\* <<>> when s has neither shape
SlashFields(s) ==
    LET dateOk == /\ Len(s) \in {10, 16}
                  /\ AllDigits(SubSeq(s, 1, 2)) /\ SubSeq(s, 3, 3) = "/"
                  /\ AllDigits(SubSeq(s, 4, 5)) /\ SubSeq(s, 6, 6) = "/"
                  /\ AllDigits(SubSeq(s, 7, 10))
        timeOk == /\ SubSeq(s, 11, 11) = " "
                  /\ AllDigits(SubSeq(s, 12, 13)) /\ SubSeq(s, 14, 14) = ":"
                  /\ AllDigits(SubSeq(s, 15, 16))
                  /\ ParseNat(SubSeq(s, 12, 13)) < 24
                  /\ ParseNat(SubSeq(s, 15, 16)) < 60
    IN  IF ~dateOk THEN <<>>
        ELSE IF Len(s) = 10
             THEN <<ParseNat(SubSeq(s, 1, 2)), ParseNat(SubSeq(s, 4, 5)),
                    ParseNat(SubSeq(s, 7, 10)), 0>>
        ELSE IF timeOk
             THEN <<ParseNat(SubSeq(s, 1, 2)), ParseNat(SubSeq(s, 4, 5)),
                    ParseNat(SubSeq(s, 7, 10)),
                    60 * ParseNat(SubSeq(s, 12, 13)) + ParseNat(SubSeq(s, 15, 16))>>
        ELSE <<>>

\* pd.to_datetime(s, dayfirst=..., errors='coerce') of one string: the
\* preferred reading of a/b when it is a date, the other reading when only
\* that one is, NaT otherwise
ParseDate(s, dayfirst) ==
    LET f == SlashFields(s)
    IN  IF f = <<>> THEN NaT
        ELSE LET dm == ValidDate(f[3], f[2], f[1])     \* a = day, b = month
                 md == ValidDate(f[3], f[1], f[2])     \* a = month, b = day
             IN  IF dayfirst /\ dm THEN Ts(SerialOf(f[3], f[2], f[1]), f[4])
                 ELSE IF md THEN Ts(SerialOf(f[3], f[1], f[2]), f[4])
                 ELSE IF dm THEN Ts(SerialOf(f[3], f[2], f[1]), f[4])
                 ELSE NaT

\* pd.to_datetime(x, format='%d/%m/%Y', errors='raise'): <<>> when it raises
ParseExact(s, dayfirst) ==
    LET f == SlashFields(s)
    IN  IF f = <<>> \/ Len(s) # 10 THEN <<>>
        ELSE IF dayfirst
             THEN (IF ValidDate(f[3], f[2], f[1])
                   THEN <<Ts(SerialOf(f[3], f[2], f[1]), 0)>> ELSE <<>>)
             ELSE (IF ValidDate(f[3], f[1], f[2])
                   THEN <<Ts(SerialOf(f[3], f[1], f[2]), 0)>> ELSE <<>>)

\* utils.excel_to_datetime
excel_to_datetime(c) ==
    IF IsNa(c) THEN None
    ELSE IF c.k \in {"int", "float"} THEN FromSerial(c)
    ELSE IF c.k = "str"
         THEN IF ParseExact(c.s, TRUE) # <<>> THEN ParseExact(c.s, TRUE)[1]
              ELSE IF ParseExact(c.s, FALSE) # <<>> THEN ParseExact(c.s, FALSE)[1]
              ELSE ParseDate(c.s, TRUE)
    ELSE c

\* the lambda of the date loops: excel_to_datetime for int and float cells
\* that are not NaN, every other cell as it is
SerialToDatetime(c) ==
    IF c.k \in {"int", "float"} THEN excel_to_datetime(c) ELSE c

\* a to_datetime that keeps what it cannot parse (errors='ignore')
ToDatetimeIgnoring(c, dayfirst) ==
    CASE c.k = "ts" -> c
      [] c.k = "str" -> (IF ParseDate(c.s, dayfirst) = NaT THEN c ELSE ParseDate(c.s, dayfirst))
      [] c.k \in {"int", "float"} -> Ts(EpochShift, 0)
      [] OTHER -> NaT

\* pd.to_datetime(column, dayfirst=..., errors='coerce') of one cell
ToDatetime(c, dayfirst) ==
    CASE c.k = "ts" -> c
      [] c.k = "str" -> ParseDate(c.s, dayfirst)
      [] c.k \in {"int", "float"} -> Ts(EpochShift, 0)    \* nanoseconds after 1970-01-01
      [] OTHER -> NaT

\* strftime('%I %p').str.lstrip('0') of an hour of the day
Hour12(h) ==
    LET h12 == IF h % 12 = 0 THEN 12 ELSE h % 12
    IN  NatStr(h12) \o (IF h < 12 THEN " AM" ELSE " PM")

\* the derived cells of a primary date cell
MonthCell(c) ==
    IF c.k # "ts" THEN NaN
    ELSE Str(MonthNames[CivilOf(c.day)[2]] \o " " \o NatStr(CivilOf(c.day)[1]))
WeekCell(c) == IF c.k # "ts" THEN NaN ELSE IntV(IsoWeek(c.day))
DayCell(c) == IF c.k # "ts" THEN NaN ELSE Str(DayNames[IsoWeekday(c.day)])
HourCell(c) == IF c.k # "ts" THEN NaN ELSE IntV(c.min \div 60)
\* an hour range whose end is not wrapped at midnight
HoursRangeCellUnwrapped(c) ==
    IF c.k # "ts" THEN NaN
    ELSE Str(Hour12(c.min \div 60) \o " - " \o Hour12((c.min \div 60) + 1))

\* start_hour + ' - ' + end_hour, the end one hour after the start
HoursRangeCell(c) ==
    IF c.k # "ts" THEN NaN
    ELSE Str(Hour12(c.min \div 60) \o " - " \o Hour12(((c.min \div 60) + 1) % 24))
\* .dt.date
DateCell(c) == IF c.k # "ts" THEN NaT ELSE DateOf(c.day)

\* str(x) / astype(str) of one cell
AsStr(c) ==
    CASE c.k = "None" -> "None"
      [] c.k = "NaN" -> "nan"
      [] c.k = "NaT" -> "NaT"
      [] c.k = "str" -> c.s
      [] c.k = "int" -> NatStr(c.n)
      [] c.k = "float" -> FloatStr(c.h)
      [] c.k = "bigfloat" -> c.s
      [] OTHER -> "<object>"

----------------------------------------------------------------------------
(* DataFrames: the column names in order, the rows as functions from the   *)
(* column names to cells, and for every row the sheet and position it came *)
(* from.                                                                   *)

Frame(cols, rows, ids) == [columns |-> cols, rows |-> rows, ids |-> ids]

\* a list and a row as explicit tables, computed once
List(s) == s \o <<>>
Row(r) == r @@ <<>>

EmptyFrame == Frame(<<>>, <<>>, <<>>)     \* pd.DataFrame()

NRows(f) == Len(f.rows)                   \* len(df)

Range(s) == {s[i] : i \in 1..Len(s)}

HasCol(f, c) == c \in Range(f.columns)    \* c in df.columns

Column(f, c) == List([i \in 1..NRows(f) |-> f.rows[i][c]])    \* df[c]

\* df[c] = vals for a column of len(df) cells: a new column goes last
SetColumn(f, c, vals) ==
    IF HasCol(f, c)
    THEN [f EXCEPT !.rows = List([i \in 1..NRows(f) |-> [f.rows[i] EXCEPT ![c] = vals[i]]])]
    ELSE [f EXCEPT !.columns = Append(f.columns, c),
                   !.rows = List([i \in 1..NRows(f) |-> f.rows[i] @@ (c :> vals[i])])]

\* df[c] = v for a scalar v
SetScalar(f, c, v) == SetColumn(f, c, List([i \in 1..NRows(f) |-> v]))

\* df[c] = df[c].apply(Op)
MapColumn(f, c, Op(_)) ==
    SetColumn(f, c, List([i \in 1..NRows(f) |-> Op(f.rows[i][c])]))

\* df[c] = df[src] mapped through Op
DeriveColumn(f, c, src, Op(_)) ==
    SetColumn(f, c, List([i \in 1..NRows(f) |-> Op(f.rows[i][src])]))

\* the column names of some frames in order of first appearance
AppendNew(before, cols) == before \o SelectSeq(cols, LAMBDA c : c \notin Range(before))

RECURSIVE UnionColumns(_)
UnionColumns(fs) ==
    IF Len(fs) = 0 THEN <<>>
    ELSE AppendNew(UnionColumns(SubSeq(fs, 1, Len(fs) - 1)), fs[Len(fs)].columns)

\* a row over the columns cols: NaN where the row has no such column
WidenRow(r, cols) ==
    Row([c \in Range(cols) |-> IF c \in DOMAIN r THEN r[c] ELSE NaN])

RECURSIVE ConcatRows(_, _)
ConcatRows(fs, cols) ==
    IF Len(fs) = 0 THEN <<>>
    ELSE ConcatRows(SubSeq(fs, 1, Len(fs) - 1), cols)
         \o List([i \in 1..NRows(fs[Len(fs)]) |-> WidenRow(fs[Len(fs)].rows[i], cols)])

RECURSIVE ConcatIds(_)
ConcatIds(fs) ==
    IF Len(fs) = 0 THEN <<>>
    ELSE ConcatIds(SubSeq(fs, 1, Len(fs) - 1)) \o fs[Len(fs)].ids

\* pd.concat(frames, ignore_index=True, sort=False)
\* a concat that puts every later frame in front
ConcatOverNewestFirst(fs, cols) ==
    Frame(cols,
          ConcatRows([i \in 1..Len(fs) |-> fs[Len(fs) + 1 - i]], cols),
          ConcatIds([i \in 1..Len(fs) |-> fs[Len(fs) + 1 - i]]))

ConcatOver(fs, cols) == Frame(cols, ConcatRows(fs, cols), ConcatIds(fs))

Concat(fs) == ConcatOver(fs, UnionColumns(fs))

\* df[cols] for a list of existing column names
SelectColumns(f, cols) ==
    Frame(cols, List([i \in 1..NRows(f) |-> Row([c \in Range(cols) |-> f.rows[i][c]])]),
          f.ids)

\* for col in order: if col not in df.columns: df[col] = None
WithColumns(f, cols) ==
    Frame(cols,
          List([i \in 1..NRows(f) |->
                   Row([c \in Range(cols) |-> IF HasCol(f, c) THEN f.rows[i][c] ELSE None])]),
          f.ids)

AddMissing(f, order) ==
    WithColumns(f, f.columns \o SelectSeq(order, LAMBDA c : ~HasCol(f, c)))

----------------------------------------------------------------------------
(* chat_processor.smart_chat_column_mapping *)

mapping_patterns ==
    << <<"Agent", <<"owner: full name", "wechat agent: agent nickname",
                    "session owner: full name", "agent", "owner name", "agent name">> >>,
       <<"Chat Key", <<"chat key", "number", "chat transcript id",
                       "messaging session name", "id">> >>,
       <<"Contact Name", <<"contact name: full name", "follower name",
                           "messaging user: contact: full name", "contact name">> >>,
       <<"Start Time", <<"actual start time", "start time", "request time",
                         "created date", "chat start time">> >>,
       <<"End Time", <<"actual end time", "end time">> >>,
       <<"Accept Time", <<"accept date", "accept time">> >>,
       <<"Owner Dept", <<"owner dept", "team", "agent dept", "department">> >>,
       <<"Actual Chat Duration (min)", <<"actual chat duration (min)",
                                         "actual duration (min)", "duration (minutes)",
                                         "aht">> >>,
       <<"Request Date", <<"request date", "request time">> >>,
       <<"Close Date", <<"close date", "closed date", "end date">> >> >>

\* the type list before messaging was added to it
ChatTypesWithoutMessaging == {"live_chat", "line_chat", "wechat_chat"}

ChatTypes == {"live_chat", "line_chat", "wechat_chat", "messaging"}

channel_map(t) ==
    CASE t = "live_chat" -> "SF"
      [] t = "line_chat" -> "LINE"
      [] t = "wechat_chat" -> "WeChat"
      [] t = "messaging" -> "Messaging"

\* next((col for col, col_lower in columns_lower.items() if pattern in
\* col_lower), None): the first column, in sheet order, that contains the
\* pattern; <<>> for None
First(S) == CHOOSE i \in S : \A j \in S : i <= j

PickFirst(cols, hits) == IF hits = {} THEN <<>> ELSE <<cols[First(hits)]>>

FirstColumnWith(cols, lowered, pattern) ==
    PickFirst(cols, {i \in 1..Len(cols) : Contains(lowered[i], pattern)})

\* the loop over the patterns of one target: the first pattern whose matched
\* column is truthy (a non-empty name) decides
Truthy(m) == m # <<>> /\ m # <<"">>

\* a pattern loop that lets the last matching pattern decide
PickLastPattern(cols, lowered, patterns, ok) ==
    IF ok = {} THEN <<>>
    ELSE FirstColumnWith(cols, lowered, patterns[CHOOSE k \in ok : \A j \in ok : j <= k])

PickPattern(cols, lowered, patterns, ok) ==
    IF ok = {} THEN <<>> ELSE FirstColumnWith(cols, lowered, patterns[First(ok)])

MatchTarget(cols, lowered, patterns) ==
    PickPattern(cols, lowered, patterns,
                {k \in 1..Len(patterns) : Truthy(FirstColumnWith(cols, lowered, patterns[k]))})

\* the returned dict in insertion order: <<target, source or constant>>
\* column_mapping[target] = matched_col when a pattern matched
PutMatch(mapped, target, m) ==
    IF m = <<>> THEN mapped ELSE Append(mapped, <<target, m[1]>>)

MatchTargets(cols, lowered) ==
    LET M[t \in 0..Len(mapping_patterns)] ==
            IF t = 0 THEN <<>>
            ELSE PutMatch(M[t - 1], mapping_patterns[t][1],
                          MatchTarget(cols, lowered, mapping_patterns[t][2]))
    IN  M[Len(mapping_patterns)]

PutChannel(mapped, data_type) ==
    IF data_type \in ChatTypes
    THEN Append(mapped, <<"Channel", channel_map(data_type)>>)
    ELSE mapped

smart_chat_column_mapping(cols, data_type) ==
    PutChannel(MatchTargets(cols, List([i \in 1..Len(cols) |-> Strip(Lower(cols[i]))])),
               data_type)

----------------------------------------------------------------------------
(* chat_processor.process_chat_files: the transformation of one sheet *)

\* for new_col, old_col in mapping.items(): copy the source column, or set
\* the channel constant when no column has that name
CopyColumn(t, new_col, old_col) ==
    IF HasCol(t, old_col)
    THEN SetColumn(t, new_col, Column(t, old_col))
    ELSE IF old_col \in {"SF", "LINE", "WeChat", "Messaging"}
         THEN SetScalar(t, new_col, Str(old_col))
         ELSE t

ApplyMapping(df, mapping) ==
    LET F[i \in 0..Len(mapping)] ==
            IF i = 0 THEN df ELSE CopyColumn(F[i - 1], mapping[i][1], mapping[i][2])
    IN  F[Len(mapping)]

\* type fields that are only filled in where the sheet has no such column
ChatTypeFieldsKeeping(t, detected_type) ==
    IF detected_type = "messaging"
    THEN AddMissing(IF HasCol(t, "Duration (Minutes)")
                    THEN DeriveColumn(t, "Chat Duration (sec)", "Duration (Minutes)", Times60)
                    ELSE t,
                    <<"Wait Time">>)
    ELSE AddMissing(t, <<"Request Date", "Close Date">>)

\* the special handling of messaging and of the other chat types: the fields
\* fixed by the record type, written after the mapped copies
ChatTypeFields(t, detected_type) ==
    IF detected_type = "messaging"
    THEN SetScalar(IF HasCol(t, "Duration (Minutes)")
                   THEN DeriveColumn(t, "Chat Duration (sec)", "Duration (Minutes)", Times60)
                   ELSE t,
                   "Wait Time", None)
    ELSE SetScalar(SetScalar(t, "Request Date", None), "Close Date", None)

chat_required_columns ==
    <<"Agent", "Chat Key", "Channel", "Start Time", "Contact Name",
      "Chat Transcript Name", "Status", "Chat Reason", "End Time",
      "Chat Duration (sec)", "Wait Time", "Post-Chat Rating", "Accept Time">>

chat_numerical_columns ==
    <<"Wait Time", "Chat Duration (sec)", "Agent Average Response Time",
      "Agent Message Count", "Visitor Message Count", "Post-Chat Rating",
      "Agent First Response Time (Seconds)", "Agent Avg Response Time",
      "Duration (Minutes)", "Actual Chat Duration (min)">>

\* for col in cols: if col in df.columns: df[col] = op(df[col])
MapColumns(df, cols, Op(_)) ==
    [df EXCEPT !.rows =
        List([i \in 1..NRows(df) |->
                 Row([c \in Range(df.columns) |->
                         IF c \in Range(cols) THEN Op(df.rows[i][c]) ELSE df.rows[i][c]])])]

\* the columns named like a time or a date that are not numerical
chat_date_columns(t) ==
    SelectSeq(t.columns,
              LAMBDA c : /\ \/ Contains(Lower(c), "time")
                            \/ Contains(Lower(c), "date")
                         /\ c \notin Range(chat_numerical_columns))

ChatDateCell(c) == ToDatetime(SerialToDatetime(c), TRUE)

\* df[c].notna().any() for an existing column
AnyNotNa(f, c) == HasCol(f, c) /\ \E i \in 1..NRows(f) : ~IsNa(f.rows[i][c])

\* the first of the preferred date columns that has a value, <<>> when none
chat_primary_date_col(t) ==
    IF AnyNotNa(t, "Start Time") THEN <<"Start Time">>
    ELSE IF AnyNotNa(t, "Actual Start Time") THEN <<"Actual Start Time">>
    ELSE IF AnyNotNa(t, "Created Date") THEN <<"Created Date">>
    ELSE <<>>

CreateDateCell(c) == ToDatetime(excel_to_datetime(c), FALSE)

\* utils.create_date_columns
create_date_columns(df, date_col) ==
    IF ~HasCol(df, date_col) THEN df
    ELSE DeriveColumn(
             DeriveColumn(
                 DeriveColumn(
                     DeriveColumn(MapColumn(df, date_col, CreateDateCell),
                                  "Month", date_col, MonthCell),
                     "Week", date_col, WeekCell),
                 "Day", date_col, DayCell),
             "Hours", date_col, HoursRangeCell)

\* the date columns to datetime, day first
ChatDates(t) == MapColumns(t, chat_date_columns(t), ChatDateCell)

\* the date parts of the primary date column, if there is one
ChatDateParts(t, primary_date_col) ==
    IF primary_date_col = <<>> THEN t ELSE create_date_columns(t, primary_date_col[1])

ChatPrimaryDateParts(t) == ChatDateParts(t, chat_primary_date_col(t))

\* the body of the loop over file_data_list for a sheet of a chat type:
\* mapping, type fields, required columns, numbers, dates, date parts
TransformChat(df, detected_type) ==
    ChatPrimaryDateParts(
        ChatDates(
            MapColumns(
                AddMissing(
                    ChatTypeFields(
                        ApplyMapping(df, smart_chat_column_mapping(df.columns, detected_type)),
                        detected_type),
                    chat_required_columns),
                chat_numerical_columns, ToNumeric)))

master_chat_columns_order ==
    <<"Agent", "Chat Key", "Chat Transcript Name", "Status", "Chat Reason",
      "Contact Name", "Start Time", "End Time", "Chat Duration (sec)",
      "Wait Time", "Post-Chat Rating", "Chat Start Time", "Ended By",
      "Type", "Detail", "Time", "Regulation", "Location",
      "Visitor IP Address", "Chat Origin URL", "Agent Message Count",
      "Visitor Message Count", "Agent Average Response Time",
      "Billing Country", "Browser Language", "Created Date",
      "Owner Dept", "Agent handling", "Agent Dept", "Day", "Week",
      "Hours", "Month", "Actual Start Time", "Actual End Time",
      "Actual Chat Duration (sec)", "Actual Chat Duration (min)",
      "Channel", "Start Time2", "End Time3", "Social Account: Name",
      "Ready To Assign (LINE)", "Started By", "Open Chat Unique ID",
      "Last Modified By: Full Name", "Last Modified Date", "Week ",
      "Agent Assigned Time", "Created By: Full Name",
      "Agent First Response Time (Seconds)", "Closed", "Agent Avg Response Time",
      "Accept Time", "Request Date", "Close Date">>

----------------------------------------------------------------------------
(* case_processor.process_case_files: the transformation of one sheet *)

actual_date_columns == <<"Case: Created Date/Time", "Created Date", "First Response">>

case_numerical_columns ==
    <<"First Response Time (min)", "First Response Time (hours)",
      "Days Since Last Response Time Stamp", "Days Since Last Client Response",
      "Age">>

text_columns ==
    <<"First Response Time Met", "Working hours (Y/N)", "First contact resolution",
      "Premium Client Qualified", "Case Status", "Case: Closed",
      "Created By", "Case Creator", "Case Owner", "Account Name",
      "Case Subject", "Case Reason", "Closed Reason", "Source Email",
      "To Email", "Case Record Type", "Case Origin", "Case Creator: Alias",
      "Case Owner Profile", "Owner Dept">>

\* df['Case Number'].astype(str)
CaseNumberCell(c) == Str(AsStr(c))

\* a text coercion that nulls the placeholders and keeps every other cell
\* as the value it was
CleanTextKeepingCell(c) ==
    IF AsStr(c) \in {"nan", "NaT", "None", ""} THEN None ELSE c

\* a text coercion that strips before it compares
CleanTextStripping(c) ==
    IF Strip(AsStr(c)) \in {"nan", "NaT", "None", ""} THEN None ELSE Str(AsStr(c))

\* a text coercion without the replace step
CleanTextWithoutReplace(c) ==
    IF AsStr(c) = "" THEN None ELSE Str(AsStr(c))

\* astype(str), replace(['nan', 'NaT', 'None'], ''), '' to None
CleanText(c) ==
    IF AsStr(c) \in {"nan", "NaT", "None", ""} THEN None ELSE Str(AsStr(c))

CaseDateCell(c) == ToDatetime(SerialToDatetime(c), FALSE)

\* case_created_date: the date part of the first date column that exists
CaseCreatedDate(df) ==
    IF HasCol(df, "Case: Created Date/Time")
    THEN DeriveColumn(df, "case_created_date", "Case: Created Date/Time", DateCell)
    ELSE IF HasCol(df, "Created Date")
         THEN DeriveColumn(df, "case_created_date", "Created Date", DateCell)
         ELSE df

case_primary_date_col(df) ==
    IF AnyNotNa(df, "Case: Created Date/Time") THEN <<"Case: Created Date/Time">>
    ELSE IF AnyNotNa(df, "Created Date") THEN <<"Created Date">>
    ELSE <<>>

CaseDateParts(df, date_col) ==
    DeriveColumn(
        DeriveColumn(
            DeriveColumn(
                DeriveColumn(
                    DeriveColumn(df, "Month", date_col, MonthCell),
                    "Week", date_col, WeekCell),
                "Day", date_col, DayCell),
            "Hours only", date_col, HourCell),
        "Hours Range", date_col, HoursRangeCell)

\* the body of the loop over file_data_list for a case_data sheet; the code
\* writes every step into the caller's DataFrame
CasePrimaryDateParts(df, primary_date_col) ==
    IF primary_date_col = <<>> THEN df ELSE CaseDateParts(df, primary_date_col[1])

CaseDateColumns(df) == CasePrimaryDateParts(df, case_primary_date_col(df))

TransformCase(df) ==
    MapColumns(
        CaseDateColumns(
            CaseCreatedDate(
                MapColumns(
                    MapColumns(
                        MapColumns(
                            MapColumns(df, <<"Case Number">>, CaseNumberCell),
                            case_numerical_columns, ToNumeric),
                        text_columns, CleanText),
                    actual_date_columns, CaseDateCell))),
        case_numerical_columns, ToNumeric)

cases_main_columns_order ==
    <<"Account Billing Country", "Case Number", "Case Reason", "Case Owner",
      "Account Name", "Case Subject", "Premium Client Qualified", "Created By",
      "Case Creator", "Age", "Closed Reason", "Source Email", "To Email",
      "Case Record Type", "Case: Created Date/Time", "First Response",
      "Days Since Last Response Time Stamp", "Days Since Last Client Response",
      "Case Origin", "Case Creator: Alias", "Case Owner Profile", "Case: Closed",
      "First contact resolution", "Created Date", "Case Status", "Owner Dept",
      "Age group", "Month", "Week", "Day", "Hours only", "Hours Range",
      "Working hours (Y/N)", "First Response Time (min)", "First Response Time (hours)",
      "First Response Time Met", "case_created_date">>

----------------------------------------------------------------------------
(* rating_processor: the five transformers *)

\* df[c] = series on a frame made by pd.DataFrame(): the first Series that
\* has rows gives the frame its index, and the columns set before it are
\* reindexed to NaN
AssignSeries(t, c, vals, ids) ==
    IF NRows(t) = 0 /\ Len(vals) > 0
    THEN SetColumn(Frame(t.columns,
                         List([i \in 1..Len(vals) |-> Row([x \in Range(t.columns) |-> NaN])]),
                         ids),
                   c, vals)
    ELSE SetColumn(t, c, vals)

\* t[c] = df.get(src): the column, or the scalar None when df has none
AssignGet(t, c, df, src) ==
    IF HasCol(df, src) THEN AssignSeries(t, c, Column(df, src), df.ids)
    ELSE SetScalar(t, c, None)

\* a transformer as data: <<target, "get", source>>, <<target, "const", cell>>
\* in statement order
ApplyAssignments(df, stmts) ==
    LET F[i \in 0..Len(stmts)] ==
            IF i = 0 THEN EmptyFrame
            ELSE IF stmts[i][2] = "get"
                 THEN AssignGet(F[i - 1], stmts[i][1], df, stmts[i][3])
                 ELSE SetScalar(F[i - 1], stmts[i][1], stmts[i][3])
    IN  F[Len(stmts)]

chat_rating_fields ==
    << <<"Feedback Created Date", "get", "GetFeedback Response: Created Date">>,
       <<"Owner Name", "get", "GetFeedback Response: Owner Name">>,
       <<"Outcome", "get", "Outcome">>,
       <<"Rating", "get", "Post-Chat Rating">>,
       <<"Account: Billing Country", "get", "Account: Billing Country">>,
       <<"chat_case_number", "get", "Chat Transcript Name">>,
       <<"chat_case_id", "get", "ChatKey">>,
       <<"Language", "get", "Language">>,
       <<"Reason", "const", Str("Chat Feedback")>>,
       <<"Month", "get", "Month">>,
       <<"Week ", "get", "Week ">>,
       <<"Day", "get", "Day">>,
       <<"Team", "get", "Team">>,
       <<"PositivePctHelper", "get", "PositivePctHelper">>,
       <<"Source", "const", Str("Chat")>> >>

process_chat_ratings(df) == ApplyAssignments(df, chat_rating_fields)

case_rating_fields ==
    << <<"Feedback Created Date", "get", "GetFeedback Response: Created Date">>,
       <<"Owner Name", "get", "GetFeedback Response: Owner Name">>,
       <<"Outcome", "get", "Outcome">>,
       <<"Rating", "get", "Case Satisfaction">>,
       <<"Account: Billing Country", "get", "Case: Account Billing Country">>,
       <<"chat_case_number", "get", "Case: Case Number">>,
       <<"chat_case_id", "get", "Case: Case ID">>,
       <<"Language", "get", "Language">>,
       <<"Reason", "get", "Case: Case Reason">>,
       <<"Month", "get", "Month">>,
       <<"Week ", "get", "Week ">>,
       <<"Day", "get", "Day">>,
       <<"Team", "get", "Team">>,
       <<"PositivePctHelper", "get", "PositivePctHelper">>,
       <<"Source", "const", Str("Case")>> >>

process_case_ratings(df) == ApplyAssignments(df, case_rating_fields)

messaging_rating_fields ==
    << <<"Feedback Created Date", "get", "Messaging Session: Start Time">>,
       <<"Owner Name", "get", "Chat Agent Name">>,
       <<"Outcome", "get", "Outcome">>,
       <<"Rating", "get", "Post-Chat Rating">>,
       <<"Account: Billing Country", "const", None>>,
       <<"chat_case_number", "get", "Messaging Session: Messaging Session Name">>,
       <<"chat_case_id", "get", "Messaging Session: Messaging Session Name">>,
       <<"Language", "get", "Language">>,
       <<"Reason", "get", "Messaging Session: Chat Reason">>,
       <<"Month", "get", "Month">>,
       <<"Week ", "get", "Week ">>,
       <<"Day", "get", "Day">>,
       <<"Team", "get", "Team">>,
       <<"PositivePctHelper", "get", "PositivePctHelper">>,
       <<"Source", "const", Str("Messaging")>> >>

process_messaging_ratings(df) == ApplyAssignments(df, messaging_rating_fields)

\* Series.map({'Positive': 5, 'Negative': 1}) of one cell
outcome_to_rating(c) ==
    IF c = Str("Positive") THEN IntV(5)
    ELSE IF c = Str("Negative") THEN IntV(1)
    ELSE NaN

\* the sheet with the mapped outcome as a column of its own, so that the
\* Rating statement reads it like any other column
WithOutcomeRating(df) == DeriveColumn(df, "outcome_to_rating", "Outcome", outcome_to_rating)

\* the statements of process_wechat_ratings; Rating reads the mapped Outcome
wechat_rating_fields ==
    << <<"Feedback Created Date", "get", "Created Date">>,
       <<"Owner Name", "get", "WeChat Agent: Agent Nickname">>,
       <<"Outcome", "get", "Outcome">>,
       <<"Rating", "get", "outcome_to_rating">>,
       <<"Account: Billing Country", "const", None>>,
       <<"chat_case_number", "get", "WeChat Transcript: Number">>,
       <<"chat_case_id", "get", "Survey Taken Number">>,
       <<"Language", "const", None>>,
       <<"Reason", "const", None>>,
       <<"Month", "get", "Month">>,
       <<"Week ", "get", "Week ">>,
       <<"Day", "get", "Day">>,
       <<"Team", "const", None>>,
       <<"PositivePctHelper", "get", "PositivePctHelper">>,
       <<"Source", "const", Str("WeChat")>> >>

\* defined for a sheet that has an Outcome column; without one
\* wechat_rating_df.get('Outcome').map raises AttributeError
process_wechat_ratings(df) == ApplyAssignments(WithOutcomeRating(df), wechat_rating_fields)

\* the placeholder: a frame with a Source column and no row
process_line_ratings(df) ==
    ApplyAssignments(df, << <<"Source", "const", Str("LINE")>> >>)

required_columns_order ==
    <<"Feedback Created Date", "Owner Name", "Outcome", "Rating",
      "Account: Billing Country", "chat_case_number", "Language", "Reason",
      "chat_case_id", "Month", "Week ", "Day", "Team", "PositivePctHelper", "Source">>

RatingDateCell(c) == ToDatetime(excel_to_datetime(c), TRUE)

\* utils.standardize_date_columns on the master rating table: of its
\* columns only 'Feedback Created Date' is a date column
standardize_date_columns(df) ==
    IF AnyNotNa(df, "Feedback Created Date")
    THEN MapColumn(df, "Feedback Created Date", RatingDateCell)
    ELSE df

----------------------------------------------------------------------------
(* cs_data_processor_flask.smart_column_mapping *)

flask_mapping_patterns ==
    << <<"Agent", <<"Owner: Full Name", "owner: full name",
                    "WeChat Agent: Agent Nickname", "wechat agent: agent nickname",
                    "Agent", "agent", "Owner Name", "owner name",
                    "Agent Name", "agent name">> >>,
       <<"Chat Key", <<"Chat Key", "chat key", "Number", "number",
                       "Chat Transcript ID", "chat transcript id", "ID", "id">> >>,
       <<"Contact Name", <<"Contact Name: Full Name", "contact name: full name",
                           "Follower Name", "follower name",
                           "Contact Name", "contact name">> >>,
       <<"Start Time", <<"Start Time", "start time", "Request Time", "request time",
                         "Created Date", "created date",
                         "Chat Start Time", "chat start time">> >>,
       <<"Owner Dept", <<"Owner Dept", "owner dept", "Team", "team",
                         "Agent Dept", "agent dept">> >> >>

\* one pattern: `if pattern in columns` maps to the pattern itself, else the
\* first column equal to it when both are lowercased; <<>> when neither
FlaskMatch(cols, pattern) ==
    IF \E i \in 1..Len(cols) : cols[i] = pattern THEN <<pattern>>
    ELSE PickFirst(cols, {i \in 1..Len(cols) : Lower(cols[i]) = Lower(pattern)})

\* the loop over the patterns of one target, left at the first pattern
\* that put the target into column_mapping
FlaskPickPattern(cols, patterns, ok) ==
    IF ok = {} THEN <<>> ELSE FlaskMatch(cols, patterns[First(ok)])

FlaskMatchTarget(cols, patterns) ==
    FlaskPickPattern(cols, patterns,
                     {k \in 1..Len(patterns) : FlaskMatch(cols, patterns[k]) # <<>>})

FlaskMatchTargets(cols) ==
    LET M[t \in 0..Len(flask_mapping_patterns)] ==
            IF t = 0 THEN <<>>
            ELSE PutMatch(M[t - 1], flask_mapping_patterns[t][1],
                          FlaskMatchTarget(cols, flask_mapping_patterns[t][2]))
    IN  M[Len(flask_mapping_patterns)]

\* the if / elif chain: no branch for messaging
FlaskPutChannel(mapped, data_type) ==
    IF data_type \in {"live_chat", "line_chat", "wechat_chat"}
    THEN Append(mapped, <<"Channel", channel_map(data_type)>>)
    ELSE mapped

smart_column_mapping(cols, data_type) == FlaskPutChannel(FlaskMatchTargets(cols), data_type)

----------------------------------------------------------------------------
(* cs_dashboard_app: detection with manual override, and the chat builder  *)
(* that runs on the confirmed results                                      *)

\* the result of a detector on the headers of a sheet and a filename
DetectedType(rules, cols, fname) ==
    Decide(rules,
           List([k \in 1..Len(rules) |->
                    ScoreRule(rules[k],
                              List([i \in 1..Len(cols) |-> Strip(Lower(cols[i]))]),
                              fname)]))

\* chat_processor.detect_chat_data_type and cs_dashboard_app.detect_data_type
detect_chat_data_type(cols, fname) == DetectedType(ChatRules, cols, fname)
dashboard_detect_data_type(cols, fname) == DetectedType(DashboardRules, cols, fname)

\* an override step that keeps the detected type
OverrideIgnored(detected_type, manual_type) == detected_type

\* if manual_type != 'auto-detected': result['detected_type'] = manual_type
Override(detected_type, manual_type) ==
    IF manual_type # "auto-detected" THEN manual_type ELSE detected_type

dashboard_mapping_patterns ==
    << <<"Agent", <<"Owner: Full Name", "owner: full name",
                    "WeChat Agent: Agent Nickname", "wechat agent: agent nickname",
                    "Agent", "agent", "Owner Name", "owner name",
                    "Agent Name", "agent name">> >>,
       <<"Chat Key", <<"Chat Key", "chat key", "Number", "number",
                       "Chat Transcript ID", "chat transcript id", "ID", "id">> >>,
       <<"Contact Name", <<"Contact Name: Full Name", "contact name: full name",
                           "Follower Name", "follower name",
                           "Contact Name", "contact name",
                           "Customer Name", "customer name">> >>,
       <<"Start Time", <<"Start Time", "start time", "Request Time", "request time",
                         "Created Date", "created date",
                         "Chat Start Time", "chat start time">> >> >>

DashboardMatchTargets(cols) ==
    LET M[t \in 0..Len(dashboard_mapping_patterns)] ==
            IF t = 0 THEN <<>>
            ELSE PutMatch(M[t - 1], dashboard_mapping_patterns[t][1],
                          FlaskMatchTarget(cols, dashboard_mapping_patterns[t][2]))
    IN  M[Len(dashboard_mapping_patterns)]

\* cs_dashboard_app.smart_column_mapping: the loop and the if / elif chain
\* of the flask copy over the dashboard's patterns
dashboard_smart_column_mapping(cols, data_type) ==
    FlaskPutChannel(DashboardMatchTargets(cols), data_type)

\* the copy loop of flexible_transform_chat: three channel constants
DashboardCopyColumn(t, new_col, old_col) ==
    IF HasCol(t, old_col)
    THEN SetColumn(t, new_col, Column(t, old_col))
    ELSE IF old_col \in {"SF", "LINE", "WeChat"}
         THEN SetScalar(t, new_col, Str(old_col))
         ELSE t

DashboardApplyMapping(df, mapping) ==
    LET F[i \in 0..Len(mapping)] ==
            IF i = 0 THEN df ELSE DashboardCopyColumn(F[i - 1], mapping[i][1], mapping[i][2])
    IN  F[Len(mapping)]

dashboard_required_columns ==
    <<"Agent", "Chat Key", "Channel", "Start Time", "Contact Name",
      "Chat Transcript Name", "Status", "Chat Reason", "End Time",
      "Chat Duration (sec)", "Wait Time", "Post-Chat Rating">>

\* cs_dashboard_app.excel_to_datetime: numbers only
dashboard_excel_to_datetime(c) ==
    IF IsNa(c) THEN None
    ELSE IF c.k \in {"int", "float"} THEN FromSerial(c)
    ELSE c

DashboardDateCell(c) == ToDatetime(dashboard_excel_to_datetime(c), FALSE)

\* cs_dashboard_app.create_date_columns
dashboard_create_date_columns(df, date_col) ==
    IF ~HasCol(df, date_col) THEN df
    ELSE DeriveColumn(
             DeriveColumn(
                 DeriveColumn(
                     DeriveColumn(MapColumn(df, date_col, DashboardDateCell),
                                  "Month", date_col, MonthCell),
                     "Week", date_col, WeekCell),
                 "Day", date_col, DayCell),
             "Hours", date_col, HourCell)

\* date_columns = [col for col in transformed.columns if 'time' in
\* col.lower() or 'date' in col.lower()]
dashboard_date_columns(t) ==
    SelectSeq(t.columns,
              LAMBDA c : Contains(Lower(c), "time") \/ Contains(Lower(c), "date"))

\* if date_columns: the date parts of date_columns[0]
DashboardDateParts(t, date_columns) ==
    IF date_columns = <<>> THEN t ELSE dashboard_create_date_columns(t, date_columns[1])

DashboardFirstDateParts(t) == DashboardDateParts(t, dashboard_date_columns(t))

flexible_transform_chat(df, data_type) ==
    DashboardFirstDateParts(
        AddMissing(
            DashboardApplyMapping(df, dashboard_smart_column_mapping(df.columns, data_type)),
            dashboard_required_columns))

dashboard_columns_order ==
    <<"Agent", "Chat Key", "Chat Transcript Name", "Status", "Chat Reason",
      "Contact Name", "Start Time", "End Time", "Chat Duration (sec)",
      "Wait Time", "Post-Chat Rating", "Chat Start Time", "Ended By",
      "Type", "Detail", "Time", "Regulation", "Location",
      "Visitor IP Address", "Chat Origin URL", "Agent Message Count",
      "Visitor Message Count", "Agent Average Response Time",
      "Billing Country", "Browser Language", "Created Date",
      "Owner Dept", "Agent handling", "Agent Dept", "Day", "Week",
      "Hours", "Month", "Actual Start Time", "Actual End Time",
      "Actual Chat Duration (sec)", "Actual Chat Duration (min)",
      "Channel", "Start Time2", "End Time3", "Social Account: Name",
      "Ready To Assign (LINE)", "Started By", "Open Chat Unique ID",
      "Last Modified By: Full Name", "Last Modified Date", "Week ",
      "Agent Assigned Time", "Created By: Full Name",
      "Agent First Response Time (Seconds)", "Closed", "Agent Avg Response Time">>

----------------------------------------------------------------------------
(* Builder inputs: the sheets of an upload, cell by cell *)

MaxSheets == 2

IndexIn(s, x) == CHOOSE i \in 1..Len(s) : s[i] = x

\* a sheet as pd.read_excel returns it: cells[i] is the i-th row, in the
\* order of cols
Sheet(cols, cells) ==
    Frame(cols,
          List([i \in 1..Len(cells) |-> Row([c \in Range(cols) |-> cells[i][IndexIn(cols, c)]])]),
          List([i \in 1..Len(cells) |-> <<0, i>>]))

\* the sheet as the p-th element of the input: its rows are tagged <<p, i>>
Placed(f, p) == [f EXCEPT !.ids = List([i \in 1..NRows(f) |-> <<p, i>>])]

LiveSheet ==
    Sheet(<<"Chat Key", "Agent", "Start Time", "Wait Time", "Agent Message Count", "Notes">>,
          << <<Str("CK-1"), Str("Ann"), Str("15/01/2021 12:30"), IntV(12), IntV(3), Str("x")>>,
             <<Str("CK-2"), NaN, Str("01/02/2021 23:05"), Str("abc"), NaN, NaN>> >>)

LineSheet ==
    Sheet(<<"Chat Transcript ID", "Owner: Full Name", "Created Date", "Team", "Request Date">>,
          << <<Str("T-9"), Str("Bob"), IntV(44197), Str("APAC"), Str("02/01/2021")>> >>)

MsgSheet ==
    Sheet(<<"Messaging Session Name", "Session Owner: Full Name", "Accept Time",
            "Duration (Minutes)", "Request Date", "Wait Time">>,
          << <<Str("MS-1"), Str("Cy"), Str("03/04/2021 09:00"), IntV(5),
               Str("03/04/2021"), IntV(7)>>,
             <<Str("MS-2"), NaN, NaN, Str("5"), Str("soon"), NaN>> >>)

OddSheet ==
    Sheet(<<"Channel", "SF", "Agent Message Count">>,
          << <<Str("web"), Str("zzz"), IntV(4)>> >>)

EmptySheet == Sheet(<<"Agent", "Chat Key", "Case Number">>, <<>>)

CaseSheetA ==
    Sheet(<<"Case Number", "Case Owner", "Case: Created Date/Time", "Age",
            "Case Subject", "Extra">>,
          << <<IntV(1001), Str("Dee"), Str("01/02/2021 11:15"), IntV(3), Str("Login"), Str("e")>>,
             <<NaN, NaN, IntV(44197), Str("n/a"), NaN, NaN>> >>)

CaseSheetB ==
    Sheet(<<"Case Number", "Created Date", "Case Status", "Created By", "First Response">>,
          << <<Str("00123"), Str("13/02/2021"), Str("None"), IntV(7), Str("pending")>> >>)

FileInfo(df, t) == [data |-> df, detected_type |-> t]

\* the elements a file_data_list is made of: a sheet and the record type the
\* caller gives it (detected, or chosen by hand)
Uploads ==
    {FileInfo(LiveSheet, "live_chat"), FileInfo(LineSheet, "line_chat"),
     FileInfo(MsgSheet, "messaging"), FileInfo(OddSheet, "wechat_chat"),
     FileInfo(EmptySheet, "live_chat"), FileInfo(LiveSheet, "unknown"),
     FileInfo(CaseSheetA, "case_data"), FileInfo(CaseSheetB, "case_data"),
     FileInfo(EmptySheet, "case_data"), FileInfo(CaseSheetA, "line_chat"),
     FileInfo(OddSheet, "live_chat")}

Batches == UNION {[1..n -> Uploads] : n \in 0..MaxSheets}

PlaceAll(b) == [p \in 1..Len(b) |-> FileInfo(Placed(b[p].data, p), b[p].detected_type)]

\* the rating sheets; a rating argument is a sheet or is not supplied
ChatRatingSheet ==
    Sheet(<<"GetFeedback Response: Created Date", "GetFeedback Response: Owner Name",
            "Outcome", "Post-Chat Rating", "Chat Transcript Name">>,
          << <<Str("05/03/2021"), Str("Ann"), Str("Positive"), IntV(5), Str("CT-1")>>,
             <<IntV(44197), NaN, NaN, NaN, Str("CT-2")>> >>)

ChatRatingSheetB == Sheet(<<"Month", "Notes">>, << <<Str("March 2021"), Str("n")>> >>)

CaseRatingSheet ==
    Sheet(<<"GetFeedback Response: Created Date", "Case Satisfaction",
            "Case: Case Number", "Case: Case Reason">>,
          << <<Str("06/03/2021"), IntV(4), Str("00123"), Str("Billing")>> >>)

MessagingRatingSheet ==
    Sheet(<<"Messaging Session: Start Time", "Chat Agent Name", "Post-Chat Rating">>,
          << <<Str("07/03/2021 08:00"), Str("Cy"), IntV(2)>> >>)

WeChatRatingSheet ==
    Sheet(<<"Created Date", "Outcome", "WeChat Transcript: Number">>,
          << <<Str("08/03/2021"), Str("Positive"), Str("W-1")>>,
             <<Str("09/03/2021"), Str("Negative"), Str("W-2")>>,
             <<Str("10/03/2021"), Str("Neutral"), Str("W-3")>> >>)

WeChatRatingSheetB == Sheet(<<"Created Date", "Rating">>, << <<Str("08/03/2021"), IntV(5)>> >>)

LineRatingSheet ==
    Sheet(<<"Feedback Created Date", "Rating">>, << <<Str("11/03/2021"), IntV(3)>> >>)

RatingSlots == <<"chat", "case", "messaging", "wechat", "line">>

RatingArg(slot, df, supplied) ==
    [data |-> df, detected_type |-> slot, supplied |-> supplied]

NotSupplied(slot) == RatingArg(slot, EmptyFrame, FALSE)

RatingChoices(slot) ==
    {NotSupplied(slot)} \cup
    {RatingArg(slot, df, TRUE) :
        df \in CASE slot = "chat" -> {ChatRatingSheet, ChatRatingSheetB}
                 [] slot = "case" -> {CaseRatingSheet}
                 [] slot = "messaging" -> {MessagingRatingSheet}
                 [] slot = "wechat" -> {WeChatRatingSheet, WeChatRatingSheetB}
                 [] slot = "line" -> {LineRatingSheet}}

\* the arguments of process_rating_files, in parameter order
RatingArgs ==
    {<<a, b, c, d, e>> : a \in RatingChoices("chat"), b \in RatingChoices("case"),
                         c \in RatingChoices("messaging"), d \in RatingChoices("wechat"),
                         e \in RatingChoices("line")}

PlaceArgs(a) ==
    [p \in 1..Len(a) |-> RatingArg(a[p].detected_type, Placed(a[p].data, p), a[p].supplied)]

\* the dashboard: an uploaded sheet, its display name and what the user
\* picks in the override box
Confirmable(df, name, manual) ==
    [data |-> df, filename |-> name, detected_type |-> "none", manual_type |-> manual]

DashboardUploads ==
    {Confirmable(df, "export.xlsx - Sheet1", m) :
        df \in {LiveSheet, LineSheet},
        m \in {"auto-detected", "live_chat", "wechat_chat", "case_data", "skip"}}

DashboardBatches == UNION {[1..n -> DashboardUploads] : n \in 0..MaxSheets}

PlaceUploads(b) == [p \in 1..Len(b) |-> [b[p] EXCEPT !.data = Placed(b[p].data, p)]]

----------------------------------------------------------------------------
(* The master-table builders as a state machine *)

Table(f) == [kind |-> "table", frame |-> f]         \* return the DataFrame

\* a builder that answers an empty batch with an empty table
NoTableAsEmptyTable == Table(EmptyFrame)

NoTable == [kind |-> "none"]                        \* return None

InitBuild ==
    /\ df_columns = <<>>
    /\ filename = ""
    /\ detector = "chat"
    /\ columns = <<>>
    /\ results = <<>>
    /\ best_type = "none"
    /\ detected = "none"
    /\ all_results = <<>>
    /\ family \in {"chat", "case", "rating", "dashboard"}
    /\ mapper = "none"
    /\ record_type = "none"
    /\ column_mapping = <<>>
    /\ coercer = "none"
    /\ trail = <<>>
    /\ file_data_list \in IF family = "rating"
                          THEN {PlaceArgs(a) : a \in RatingArgs}
                          ELSE IF family = "dashboard"
                          THEN {PlaceUploads(b) : b \in DashboardBatches}
                          ELSE {PlaceAll(b) : b \in Batches}
    /\ submitted = file_data_list
    /\ pc = family
    /\ pos = 1
    /\ all_data = <<>>
    /\ total_source_rows = 0
    /\ row_errors = 0
    /\ master = [kind |-> "unset"]

\* the row-count checks print and go on: 1 for a mismatch
RowCheck(processed, source) == IF processed # source THEN 1 ELSE 0

\* a merge that adds the missing columns and forgets the selection
CanonicalWithoutSelection(combined, order) == AddMissing(combined, order)

\* after pd.concat: the missing canonical columns, then the canonical selection
Canonical(combined, order) == SelectColumns(AddMissing(combined, order), order)

(* process_chat_files *)

\* a sheet of another record type: continue
ChatSkip ==
    /\ pc = "chat" /\ pos <= Len(file_data_list)
    /\ file_data_list[pos].detected_type \notin ChatTypes
    /\ pos' = pos + 1
    /\ UNCHANGED <<pc, classifyVars, mapVars, coerceVars, family, submitted, file_data_list, all_data,
                   total_source_rows, row_errors, master>>

\* one qualifying sheet through the loop body
ChatSheet ==
    /\ pc = "chat" /\ pos <= Len(file_data_list)
    /\ file_data_list[pos].detected_type \in ChatTypes
    /\ total_source_rows' = total_source_rows + NRows(file_data_list[pos].data)
    /\ all_data' = Append(all_data, TransformChat(file_data_list[pos].data,
                                                  file_data_list[pos].detected_type))
    /\ row_errors' = row_errors + RowCheck(NRows(all_data'[Len(all_data')]),
                                           NRows(file_data_list[pos].data))
    /\ pos' = pos + 1
    /\ UNCHANGED <<pc, classifyVars, mapVars, coerceVars, family, submitted, file_data_list, master>>

\* if not all_chat_data: return None
ChatReturnNone ==
    /\ pc = "chat" /\ pos > Len(file_data_list)
    /\ all_data = <<>>
    /\ master' = NoTable
    /\ pc' = "done"
    /\ UNCHANGED <<classifyVars, mapVars, coerceVars, family, submitted, file_data_list, pos, all_data,
                   total_source_rows, row_errors>>

\* concat, the batch row check, the canonical columns, return
ChatMerge ==
    /\ pc = "chat" /\ pos > Len(file_data_list)
    /\ all_data # <<>>
    /\ master' = Table(Canonical(Concat(all_data), master_chat_columns_order))
    /\ row_errors' = row_errors + RowCheck(NRows(master'.frame), total_source_rows)
    /\ pc' = "done"
    /\ UNCHANGED <<classifyVars, mapVars, coerceVars, family, submitted, file_data_list, pos, all_data, total_source_rows>>

(* process_case_files *)

CaseSkip ==
    /\ pc = "case" /\ pos <= Len(file_data_list)
    /\ file_data_list[pos].detected_type # "case_data"
    /\ pos' = pos + 1
    /\ UNCHANGED <<pc, classifyVars, mapVars, coerceVars, family, submitted, file_data_list, all_data,
                   total_source_rows, row_errors, master>>

\* one case sheet through the loop body; df is the caller's object, so the
\* caller's sheet changes with it
CaseSheet ==
    /\ pc = "case" /\ pos <= Len(file_data_list)
    /\ file_data_list[pos].detected_type = "case_data"
    /\ total_source_rows' = total_source_rows + NRows(file_data_list[pos].data)
    /\ all_data' = Append(all_data, TransformCase(file_data_list[pos].data))
    /\ file_data_list' = [file_data_list EXCEPT ![pos].data = all_data'[Len(all_data')]]
    /\ row_errors' = row_errors + RowCheck(NRows(all_data'[Len(all_data')]),
                                           NRows(file_data_list[pos].data))
    /\ pos' = pos + 1
    /\ UNCHANGED <<pc, classifyVars, mapVars, coerceVars, family, submitted, master>>

CaseReturnNone ==
    /\ pc = "case" /\ pos > Len(file_data_list)
    /\ all_data = <<>>
    /\ master' = NoTable
    /\ pc' = "done"
    /\ UNCHANGED <<classifyVars, mapVars, coerceVars, family, submitted, file_data_list, pos, all_data,
                   total_source_rows, row_errors>>

CaseMerge ==
    /\ pc = "case" /\ pos > Len(file_data_list)
    /\ all_data # <<>>
    /\ master' = Table(Canonical(Concat(all_data), cases_main_columns_order))
    /\ row_errors' = row_errors + RowCheck(NRows(master'.frame), total_source_rows)
    /\ pc' = "done"
    /\ UNCHANGED <<classifyVars, mapVars, coerceVars, family, submitted, file_data_list, pos, all_data, total_source_rows>>

(* process_rating_files *)

\* dfs.append(transformed) inside an `if path and sheet:` block
AppendIf(dfs, supplied, transformed) == IF supplied THEN Append(dfs, transformed) ELSE dfs

\* the chat ratings block
RatingChat ==
    /\ pc = "rating" /\ pos <= Len(RatingSlots) /\ RatingSlots[pos] = "chat"
    /\ all_data' = AppendIf(all_data, file_data_list[pos].supplied,
                            process_chat_ratings(file_data_list[pos].data))
    /\ pos' = pos + 1
    /\ UNCHANGED <<pc, classifyVars, mapVars, coerceVars, family, submitted, file_data_list, total_source_rows,
                   row_errors, master>>

\* the case ratings block
RatingCase ==
    /\ pc = "rating" /\ pos <= Len(RatingSlots) /\ RatingSlots[pos] = "case"
    /\ all_data' = AppendIf(all_data, file_data_list[pos].supplied,
                            process_case_ratings(file_data_list[pos].data))
    /\ pos' = pos + 1
    /\ UNCHANGED <<pc, classifyVars, mapVars, coerceVars, family, submitted, file_data_list, total_source_rows,
                   row_errors, master>>

\* the messaging ratings block
RatingMessaging ==
    /\ pc = "rating" /\ pos <= Len(RatingSlots) /\ RatingSlots[pos] = "messaging"
    /\ all_data' = AppendIf(all_data, file_data_list[pos].supplied,
                            process_messaging_ratings(file_data_list[pos].data))
    /\ pos' = pos + 1
    /\ UNCHANGED <<pc, classifyVars, mapVars, coerceVars, family, submitted, file_data_list, total_source_rows,
                   row_errors, master>>

\* the WeChat block: without an Outcome column the transformer raises and
\* the except clause returns None
RatingWeChat ==
    /\ pc = "rating" /\ pos <= Len(RatingSlots) /\ RatingSlots[pos] = "wechat"
    /\ IF file_data_list[pos].supplied /\ ~HasCol(file_data_list[pos].data, "Outcome")
       THEN /\ master' = NoTable
            /\ pc' = "done"
            /\ UNCHANGED <<pos, all_data>>
       ELSE /\ all_data' = AppendIf(all_data, file_data_list[pos].supplied,
                                    process_wechat_ratings(file_data_list[pos].data))
            /\ pos' = pos + 1
            /\ UNCHANGED <<pc, master>>
    /\ UNCHANGED <<classifyVars, mapVars, coerceVars, family, submitted, file_data_list, total_source_rows, row_errors>>

\* the LINE block: appended only if not line_transformed.empty
RatingLine ==
    /\ pc = "rating" /\ pos <= Len(RatingSlots) /\ RatingSlots[pos] = "line"
    /\ all_data' = AppendIf(all_data,
                            /\ file_data_list[pos].supplied
                            /\ NRows(process_line_ratings(file_data_list[pos].data)) > 0,
                            process_line_ratings(file_data_list[pos].data))
    /\ pos' = pos + 1
    /\ UNCHANGED <<pc, classifyVars, mapVars, coerceVars, family, submitted, file_data_list, total_source_rows,
                   row_errors, master>>

\* if not dfs: return None; else concat, canonical columns, date
\* standardization, return
RatingMerge ==
    /\ pc = "rating" /\ pos > Len(RatingSlots)
    /\ master' = IF all_data = <<>> THEN NoTable
                 ELSE Table(standardize_date_columns(
                                Canonical(Concat(all_data), required_columns_order)))
    /\ pc' = "done"
    /\ UNCHANGED <<classifyVars, mapVars, coerceVars, family, submitted, file_data_list, pos, all_data,
                   total_source_rows, row_errors>>

(* cs_dashboard_app: preview_detection_results, then                      *)
(* flexible_process_chat_data_confirmed                                    *)

\* the detection of every uploaded sheet and the override boxes
PreviewDetection ==
    /\ pc = "dashboard"
    /\ file_data_list' =
          [p \in 1..Len(file_data_list) |->
              [file_data_list[p] EXCEPT !.detected_type =
                  Override(dashboard_detect_data_type(file_data_list[p].data.columns,
                                                      file_data_list[p].filename),
                           file_data_list[p].manual_type)]]
    /\ pc' = "confirmed"
    /\ UNCHANGED <<classifyVars, mapVars, coerceVars, family, submitted, pos, all_data,
                   total_source_rows, row_errors, master>>

\* 'skip', or not one of the three chat types: continue
ConfirmedSkip ==
    /\ pc = "confirmed" /\ pos <= Len(file_data_list)
    /\ file_data_list[pos].detected_type \notin {"live_chat", "line_chat", "wechat_chat"}
    /\ pos' = pos + 1
    /\ UNCHANGED <<pc, classifyVars, mapVars, coerceVars, family, submitted, file_data_list,
                   all_data, total_source_rows, row_errors, master>>

ConfirmedSheet ==
    /\ pc = "confirmed" /\ pos <= Len(file_data_list)
    /\ file_data_list[pos].detected_type \in {"live_chat", "line_chat", "wechat_chat"}
    /\ all_data' = Append(all_data, flexible_transform_chat(file_data_list[pos].data,
                                                            file_data_list[pos].detected_type))
    /\ pos' = pos + 1
    /\ UNCHANGED <<pc, classifyVars, mapVars, coerceVars, family, submitted, file_data_list,
                   total_source_rows, row_errors, master>>

ConfirmedReturnNone ==
    /\ pc = "confirmed" /\ pos > Len(file_data_list)
    /\ all_data = <<>>
    /\ master' = NoTable
    /\ pc' = "done"
    /\ UNCHANGED <<classifyVars, mapVars, coerceVars, family, submitted, file_data_list, pos,
                   all_data, total_source_rows, row_errors>>

ConfirmedMerge ==
    /\ pc = "confirmed" /\ pos > Len(file_data_list)
    /\ all_data # <<>>
    /\ master' = Table(Canonical(Concat(all_data), dashboard_columns_order))
    /\ pc' = "done"
    /\ UNCHANGED <<classifyVars, mapVars, coerceVars, family, submitted, file_data_list, pos,
                   all_data, total_source_rows, row_errors>>

NextBuild ==
    \/ ChatSkip \/ ChatSheet \/ ChatReturnNone \/ ChatMerge
    \/ CaseSkip \/ CaseSheet \/ CaseReturnNone \/ CaseMerge
    \/ RatingChat \/ RatingCase \/ RatingMessaging \/ RatingWeChat \/ RatingLine
    \/ RatingMerge
    \/ PreviewDetection \/ ConfirmedSkip \/ ConfirmedSheet \/ ConfirmedReturnNone
    \/ ConfirmedMerge

SpecBuild == InitBuild /\ [][NextBuild]_vars

----------------------------------------------------------------------------
(* The column mappers as a state machine *)

\* headers as exports spell them, for the mappers
MapHeaderPool ==
    <<"Agent", "Owner: Full Name", "owner name", "Agent Name ", "Chat Key",
      "Case Number", "Team", "Start Time", "Actual Start Time", "ID",
      "Agent Message Count">>

\* header lists without repetition, in every order
RECURSIVE HeaderLists(_)
HeaderLists(n) ==
    IF n = 0 THEN {<<>>}
    ELSE HeaderLists(n - 1) \cup
         {Append(h, MapHeaderPool[i]) :
             h \in {g \in HeaderLists(n - 1) : Len(g) = n - 1},
             i \in 1..Len(MapHeaderPool)}

MapSheets ==
    {h \in HeaderLists(MaxHeaders) : \A i, j \in 1..Len(h) : i # j => h[i] # h[j]}

RecordTypes == {"live_chat", "line_chat", "wechat_chat", "messaging", "unknown"}

InitMap ==
    /\ pc = "map"
    /\ df_columns \in MapSheets
    /\ record_type \in RecordTypes
    /\ mapper = "none"
    /\ column_mapping = <<>>
    /\ filename = ""
    /\ detector = "chat"
    /\ columns = <<>>
    /\ results = <<>>
    /\ best_type = "none"
    /\ detected = "none"
    /\ all_results = <<>>
    /\ family = "map"
    /\ submitted = <<>>
    /\ file_data_list = <<>>
    /\ pos = 0
    /\ all_data = <<>>
    /\ total_source_rows = 0
    /\ row_errors = 0
    /\ master = [kind |-> "unset"]
    /\ coercer = "none"
    /\ trail = <<>>

\* chat_processor.smart_chat_column_mapping(df, data_type)
MapChatColumns ==
    /\ pc = "map"
    /\ mapper' = "chat"
    /\ column_mapping' = smart_chat_column_mapping(df_columns, record_type)
    /\ pc' = "done"
    /\ UNCHANGED <<classifyVars, buildVars, coerceVars, record_type>>

\* cs_data_processor_flask.smart_column_mapping(df, data_type)
MapFlaskColumns ==
    /\ pc = "map"
    /\ mapper' = "flask"
    /\ column_mapping' = smart_column_mapping(df_columns, record_type)
    /\ pc' = "done"
    /\ UNCHANGED <<classifyVars, buildVars, coerceVars, record_type>>

NextMap == MapChatColumns \/ MapFlaskColumns

SpecMap == InitMap /\ [][NextMap]_vars

----------------------------------------------------------------------------
(* The value coercions of the pipelines over one column, as a state machine *)

MaxCells == 2
MaxPasses == 2

\* cells as pd.read_excel delivers them
CellPool ==
    {None, NaN, Str(""), Str(" "), Str("nan"), Str("NaT"), Str("None"),
     Str("abc"), Str("12"), Str("12.5"), IntV(12), IntV(44197), Flt(4419750),
     Str("03/04/2021"), Str("13/04/2021"), Str("04/13/2021"), Str("03/04/2021 10:30")}

RawColumns ==
    UNION {[1..n -> CellPool] : n \in 0..MaxCells}
        \cup {<<Str("12"), Str("abc"), Str(""), None>>}

\* series.apply(f) / a conversion that works cell by cell
Cellwise(col, Op(_)) == List([i \in 1..Len(col) |-> Op(col[i])])

InitCoerce ==
    /\ pc = "coerce"
    /\ family = "coerce"
    /\ coercer = "none"
    /\ trail \in {<<col>> : col \in RawColumns}
    /\ df_columns = <<>>
    /\ filename = ""
    /\ detector = "chat"
    /\ columns = <<>>
    /\ results = <<>>
    /\ best_type = "none"
    /\ detected = "none"
    /\ all_results = <<>>
    /\ submitted = <<>>
    /\ file_data_list = <<>>
    /\ pos = 0
    /\ all_data = <<>>
    /\ total_source_rows = 0
    /\ row_errors = 0
    /\ master = [kind |-> "unset"]
    /\ mapper = "none"
    /\ record_type = "none"
    /\ column_mapping = <<>>

\* the column may be coerced (again) by the coercion c
MayCoerce(c) ==
    /\ pc = "coerce"
    /\ coercer \in {"none", c}
    /\ Len(trail) <= MaxPasses

\* case_processor: a column of text_columns; astype(str), replace, apply
CoerceText ==
    /\ MayCoerce("text")
    /\ coercer' = "text"
    /\ trail' = Append(trail, Cellwise(trail[Len(trail)], CleanText))
    /\ UNCHANGED <<pc, classifyVars, buildVars, mapVars>>

\* chat_processor / case_processor: a column of numerical_columns;
\* pd.to_numeric(errors='coerce'), in the case pipeline a second time after
\* the dates
CoerceNumeric ==
    /\ MayCoerce("numeric")
    /\ coercer' = "numeric"
    /\ trail' = Append(trail, Cellwise(trail[Len(trail)], ToNumeric))
    /\ UNCHANGED <<pc, classifyVars, buildVars, mapVars>>

\* chat_processor: a column of date_columns_to_process
CoerceChatDate ==
    /\ MayCoerce("chat_date")
    /\ coercer' = "chat_date"
    /\ trail' = Append(trail, Cellwise(trail[Len(trail)], ChatDateCell))
    /\ UNCHANGED <<pc, classifyVars, buildVars, mapVars>>

\* case_processor: a column of actual_date_columns
CoerceCaseDate ==
    /\ MayCoerce("case_date")
    /\ coercer' = "case_date"
    /\ trail' = Append(trail, Cellwise(trail[Len(trail)], CaseDateCell))
    /\ UNCHANGED <<pc, classifyVars, buildVars, mapVars>>

\* utils.standardize_date_columns, which the rating pipeline runs: a date
\* column that is not all null
CoerceRatingDate ==
    /\ MayCoerce("rating_date")
    /\ coercer' = "rating_date"
    /\ trail' = Append(trail,
                       IF \A i \in 1..Len(trail[Len(trail)]) : IsNa(trail[Len(trail)][i])
                       THEN trail[Len(trail)]
                       ELSE Cellwise(trail[Len(trail)], RatingDateCell))
    /\ UNCHANGED <<pc, classifyVars, buildVars, mapVars>>

NextCoerce ==
    CoerceText \/ CoerceNumeric \/ CoerceChatDate \/ CoerceCaseDate \/ CoerceRatingDate

SpecCoerce == InitCoerce /\ [][NextCoerce]_vars

----------------------------------------------------------------------------
(* Properties of the classifier *)

\* the position of a type in the results dict
IndexOf(t) == CHOOSE i \in 1..Len(results) : results[i].type = t

\* no normalized header contains any required fragment of the rule
NoRequired(rule) ==
    \A k \in 1..Len(rule.required) :
        \A c \in 1..Len(columns) : ~Contains(columns[c], rule.required[k])

\* how many fragments of frags occur in some normalized header
Hits(frags) ==
    Cardinality({k \in 1..Len(frags) :
                    \E c \in 1..Len(columns) : Contains(columns[c], frags[k])})

\* C7: the candidate winner has a confidence that no candidate exceeds, and
\* among the candidates that share the maximal confidence it is the one
\* declared first (also when every confidence is 0).
C7_FirstMaximalWins ==
    pc = "done" =>
        \E b \in 1..Len(results) :
            /\ results[b].type = best_type
            /\ \A j \in 1..Len(results) :
                   FLeq(results[j].confidence, results[b].confidence)
            /\ \A j \in 1..(b - 1) :
                   FLess(results[j].confidence, results[b].confidence)

\* two candidates tie at a maximal, non-zero confidence and the earlier wins
C7_Witness ==
    /\ pc = "done"
    /\ \E i, j \in 1..Len(results) :
          /\ i < j
          /\ results[i].type = best_type
          /\ results[j].confidence = results[i].confidence
          /\ FLess(FZero, results[i].confidence)

\* C8: when the highest-confidence type is below its own min_confidence the
\* result is unknown, whatever thresholds the other candidates meet; and a
\* result other than unknown has a confidence of at least its own
\* min_confidence.
C8_OwnThreshold ==
    pc = "done" =>
        LET rules == detection_rules(detector)
            b     == IndexOf(best_type)
        IN  /\ FLess(results[b].confidence, rules[b].min_confidence)
                  => detected = "unknown"
            /\ detected # "unknown" =>
                  \E i \in 1..Len(results) :
                      /\ results[i].type = detected
                      /\ FLeq(rules[i].min_confidence, results[i].confidence)

\* the winner misses its threshold while a candidate of strictly lower
\* confidence meets its own, and the result is unknown
C8_Witness ==
    /\ pc = "done"
    /\ detected = "unknown"
    /\ LET rules == detection_rules(detector)
           b     == IndexOf(best_type)
       IN  \E j \in 1..Len(results) :
               /\ FLeq(rules[j].min_confidence, results[j].confidence)
               /\ FLess(results[j].confidence, results[b].confidence)

\* C9: a candidate none of whose required fragments occurs in a header has
\* confidence 0 and no indicators, whatever strong or channel fragments
\* match; when that is so for every candidate the result is unknown.
C9_NoRequiredNoCredit ==
    LET rules == detection_rules(detector)
    IN  /\ \A i \in 1..Len(results) :
               NoRequired(rules[i]) =>
                   /\ results[i].confidence = FZero
                   /\ results[i].indicators = <<>>
        /\ (pc = "done" /\ \A i \in 1..Len(rules) : NoRequired(rules[i]))
               => detected = "unknown"

\* no candidate has a required hit, one has a strong hit and its channel
\* fragment in the filename, and the result is unknown
C9_Witness ==
    /\ pc = "done"
    /\ detected = "unknown"
    /\ LET rules == detection_rules(detector)
       IN  /\ \A i \in 1..Len(rules) : NoRequired(rules[i])
           /\ \E i \in 1..Len(rules) :
                  /\ Hits(rules[i].strong_indicators) > 0
                  /\ \E k \in 1..Len(rules[i].channel_indicators) :
                         Contains(Lower(filename), rules[i].channel_indicators[k])

\* the binary64 value nearest to u / 20, for the twentieths the weights
\* 0.6, 0.3 and 0.1 can add up to
Twentieths(u) ==
    CASE u = 4  -> Dbl(53687091, 53687092)      \* 0.2
      [] u = 5  -> Dbl(67108864, 0)             \* 0.25
      [] u = 6  -> Dbl(80530636, 214748364)     \* 0.3
      [] u = 7  -> Dbl(93952409, 161061272)     \* 0.35
      [] u = 8  -> Dbl(107374182, 107374184)    \* 0.4
      [] u = 9  -> Dbl(120795955, 53687092)     \* 0.45
      [] u = 10 -> Dbl(134217728, 0)            \* 0.5
      [] u = 11 -> Dbl(147639500, 214748368)    \* 0.55
      [] u = 12 -> Dbl(161061273, 161061272)    \* 0.6
      [] u = 13 -> Dbl(174483046, 107374184)    \* 0.65
      [] u = 14 -> Dbl(187904819, 53687088)     \* 0.7
      [] u = 15 -> Dbl(201326592, 0)            \* 0.75
      [] u = 16 -> Dbl(214748364, 214748368)    \* 0.8
      [] u = 17 -> Dbl(228170137, 161061272)    \* 0.85
      [] u = 18 -> Dbl(241591910, 107374184)    \* 0.9
      [] u = 19 -> Dbl(255013683, 53687088)     \* 0.95
      [] OTHER  -> FOne                         \* 1.0

\* min(1, 0.6 * r/n + 0.3 * s/m + 0.1 [channel]) in exact arithmetic, in
\* twentieths
ClaimedTwentieths(rule) ==
    LET r  == Hits(rule.required)
        st == Hits(rule.strong_indicators)
        ch == \E k \in 1..Len(rule.channel_indicators) :
                  \/ Contains(Lower(filename), rule.channel_indicators[k])
                  \/ \E c \in 1..Len(columns) :
                         Contains(columns[c], rule.channel_indicators[k])
        u  == (12 * r) \div Len(rule.required)
              + (6 * st) \div Len(rule.strong_indicators)
              + (IF ch THEN 2 ELSE 0)
    IN  IF u > 20 THEN 20 ELSE u

\* C10: a candidate with a required hit has the confidence
\* min(1, 0.6 * r/n + 0.3 * s/m + 0.1 [channel]); a sheet with all required
\* and all strong fragments of live_chat and a channel fragment in the
\* filename is classified live_chat with confidence exactly 1.0.
C10_LiveChatFullScore ==
    (/\ pc = "done"
     /\ detector = "chat"
     /\ df_columns = SheetOf(LiveExport)
     /\ filename = "SF_live_export.xlsx")
        => /\ detected = "live_chat"
           /\ ClaimedTwentieths(live_chat_rule) = 20
           /\ results[IndexOf("live_chat")].confidence
                  = Twentieths(ClaimedTwentieths(live_chat_rule))

\* C10, the formula for every candidate with a required hit
C10_FormulaEverywhere ==
    LET rules == detection_rules(detector)
    IN  \A i \in 1..Len(results) :
            ~NoRequired(rules[i]) =>
                results[i].confidence = Twentieths(ClaimedTwentieths(rules[i]))

\* the detectors that have a case_data rule
CaseDetectors == {"case", "main_case", "dashboard", "flask"}

\* C11: a sheet none of whose headers contains a strong indicator of
\* case_data is never classified case_data; with the headers 'Case Number'
\* and 'Case Owner' only, case_data is the best candidate, its confidence is
\* at least 0.6 and below the 0.8 floor, and the answer is unknown (the
\* router passes the sheet from the chat to the case detector first).
C11_NoStrongNoCaseData ==
    pc = "done" =>
        /\ Hits(case_data_rule.strong_indicators) = 0 => detected # "case_data"
        /\ df_columns = <<"Case Number", "Case Owner">> =>
              /\ detected = "unknown"
              /\ detector # "main"
              /\ detector \in CaseDetectors =>
                    /\ best_type = "case_data"
                    /\ FLeq(F06, results[IndexOf("case_data")].confidence)
                    /\ FLess(results[IndexOf("case_data")].confidence, F08)

\* the router has run both detectors on 'Case Number', 'Case Owner' and
\* case_data stands at 0.7
C11_Witness ==
    /\ pc = "done"
    /\ detector = "main_case"
    /\ df_columns = <<"Case Number", "Case Owner">>
    /\ detected = "unknown"
    /\ results[IndexOf("case_data")].confidence = F07
    /\ Len(all_results) = Len(ChatRules) + Len(CaseRules)

\* the headers of cols at the positions I, in sheet order
Pick(cols, I) ==
    LET F[i \in 0..Len(cols)] ==
            IF i = 0 THEN <<>>
            ELSE IF i \in I THEN Append(F[i - 1], cols[i]) ELSE F[i - 1]
    IN  F[Len(cols)]

\* the confidence the i-th rule of the running detector gives to the sheet
\* reduced to the headers at the positions I, same filename
ConfidenceOn(i, I) ==
    ScoreRule(detection_rules(detector)[i], Pick(columns, I), filename).confidence

\* C12: scoring monotonicity.  For every record type scored so far, every
\* sheet made of a subset of the headers gets, with the same filename, a
\* confidence that is at most the confidence of the whole sheet.
C12_ScoringMonotone ==
    pc \in {"score", "select"} =>
        \A i \in 1..Len(results) :
            \A I \in SUBSET (1..Len(columns)) :
                FLeq(ConfidenceOn(i, I), results[i].confidence)

\* a type scores more than 0 on a proper part of the headers and strictly
\* more on the whole sheet
C12_Witness ==
    /\ pc = "select"
    /\ \E i \in 1..Len(results) :
          \E I \in SUBSET (1..Len(columns)) :
              /\ FLess(FZero, ConfidenceOn(i, I))
              /\ FLess(ConfidenceOn(i, I), results[i].confidence)

----------------------------------------------------------------------------
(* Properties of the master-table builders *)

\* the record types of a family, as the specification lists them
FamilyTypes(fam) ==
    IF fam = "chat" THEN {"live_chat", "line_chat", "wechat_chat", "messaging"}
    ELSE {"case_data"}

Qualifies(p) == submitted[p].detected_type \in FamilyTypes(family)

\* the sum of the row counts of the qualifying sheets among the first n
RECURSIVE QualifyingRows(_)
QualifyingRows(n) ==
    IF n = 0 THEN 0
    ELSE QualifyingRows(n - 1) + (IF Qualifies(n) THEN NRows(submitted[n].data) ELSE 0)

RECURSIVE SumRows(_)
SumRows(fs) == IF Len(fs) = 0 THEN 0 ELSE SumRows(SubSeq(fs, 1, Len(fs) - 1)) + NRows(fs[Len(fs)])

Returned == pc = "done" /\ master.kind = "table"

\* C1: in the chat and the case builder the transformed sheets have, at every
\* step, as many rows as the qualifying sheets read so far, no row check ever
\* sees a difference, and a returned table has exactly the rows of the
\* qualifying sheets: one row for each of them and none twice
C1_RowConservation ==
    family \in {"chat", "case"} =>
        /\ SumRows(all_data) = QualifyingRows(pos - 1)
        /\ total_source_rows = QualifyingRows(pos - 1)
        /\ row_errors = 0
        /\ Returned =>
              /\ NRows(master.frame) = QualifyingRows(Len(submitted))
              /\ Len(master.frame.ids) = NRows(master.frame)
              /\ \A i, j \in 1..NRows(master.frame) :
                    master.frame.ids[i] = master.frame.ids[j] => i = j

\* a returned table made of a sheet of the family with rows, next to a sheet
\* of another type with rows that contributes none
C1_Witness ==
    /\ family \in {"chat", "case"} /\ Returned
    /\ NRows(master.frame) > 1
    /\ \E p \in 1..Len(submitted) : ~Qualifies(p) /\ NRows(submitted[p].data) > 0

\* the rows of all the rating sheets that were supplied
RECURSIVE SuppliedRows(_)
SuppliedRows(n) ==
    IF n = 0 THEN 0
    ELSE SuppliedRows(n - 1) + (IF submitted[n].supplied THEN NRows(submitted[n].data) ELSE 0)

\* C2: a returned master rating table has as many rows as all the supplied
\* rating sheets together, the LINE sheet included
C2_RatingRowConservation ==
    (family = "rating" /\ Returned) => NRows(master.frame) = SuppliedRows(Len(submitted))

\* C4: a builder that finds no sheet of its family (an empty list, only
\* sheets of other types, no rating sheet supplied) returns None and no table
C4_NothingQualifiesGivesNone ==
    pc = "done" =>
        /\ (family \in {"chat", "case"} /\ \A p \in 1..Len(submitted) : ~Qualifies(p))
              => master.kind = "none"
        /\ (family = "rating" /\ \A p \in 1..Len(submitted) : ~submitted[p].supplied)
              => master.kind = "none"

\* the chat builder is done with a list of two sheets of other types
C4_Witness ==
    /\ pc = "done" /\ family = "chat" /\ master.kind = "none"
    /\ Len(submitted) = 2
    /\ \A p \in 1..Len(submitted) : ~Qualifies(p) /\ NRows(submitted[p].data) > 0

CanonicalSchema(fam) ==
    CASE fam = "chat" -> master_chat_columns_order
      [] fam = "case" -> cases_main_columns_order
      [] fam = "rating" -> required_columns_order
      [] fam = "dashboard" -> dashboard_columns_order

\* C5: a returned table has the canonical columns of its family in the
\* canonical order and no other column, and a canonical column that no
\* transformed sheet has is None in every row
C5_CanonicalSchema ==
    Returned =>
        /\ master.frame.columns = CanonicalSchema(family)
        /\ \A i \in 1..NRows(master.frame) :
              DOMAIN master.frame.rows[i] = Range(CanonicalSchema(family))
        /\ \A c \in Range(CanonicalSchema(family)) :
              (\A k \in 1..Len(all_data) : ~HasCol(all_data[k], c))
                 => \A i \in 1..NRows(master.frame) : master.frame.rows[i][c] = None

\* a returned table with rows whose sheets had a column outside the schema
\* and lacked a canonical one
C5_Witness ==
    /\ Returned /\ NRows(master.frame) > 0
    /\ \E k \in 1..Len(all_data) :
          \E c \in Range(all_data[k].columns) : c \notin Range(CanonicalSchema(family))
    /\ \E c \in Range(CanonicalSchema(family)) :
          \A k \in 1..Len(all_data) : ~HasCol(all_data[k], c)

\* the row tags of the qualifying sheets among the first n, in input order
RECURSIVE SubmissionOrder(_)
SubmissionOrder(n) ==
    IF n = 0 THEN <<>>
    ELSE SubmissionOrder(n - 1) \o
         (IF Qualifies(n) THEN [i \in 1..NRows(submitted[n].data) |-> <<n, i>>] ELSE <<>>)

\* the transformed row that carries the tag id
TransformedRow(id) ==
    LET k == CHOOSE k \in 1..Len(all_data) : \E i \in 1..NRows(all_data[k]) : all_data[k].ids[i] = id
        i == CHOOSE i \in 1..NRows(all_data[k]) : all_data[k].ids[i] = id
    IN  all_data[k].rows[i]

\* C6: the rows of a returned chat or case table are the rows of the
\* qualifying sheets, sheet after sheet in input order and within a sheet in
\* the sheet's order, each with the cells its transformed row has
C6_SubmissionOrder ==
    (family \in {"chat", "case"} /\ Returned) =>
        /\ master.frame.ids = SubmissionOrder(Len(submitted))
        /\ \A r \in 1..NRows(master.frame) :
              \A c \in Range(master.frame.columns) \cap DOMAIN TransformedRow(master.frame.ids[r]) :
                 master.frame.rows[r][c] = TransformedRow(master.frame.ids[r])[c]

\* a returned table of two qualifying sheets, the first with two rows
C6_Witness ==
    /\ family \in {"chat", "case"} /\ Returned
    /\ Len(submitted) = 2 /\ Qualifies(1) /\ Qualifies(2)
    /\ NRows(submitted[1].data) = 2 /\ NRows(submitted[2].data) > 0
    /\ submitted[1].data.columns # submitted[2].data.columns

----------------------------------------------------------------------------
(* Properties of the column mappers *)

\* a header is matched by a pattern: the chat mapper looks for the pattern
\* inside the lowercased, stripped header; the flask mapper wants the
\* header to be the pattern, up to case
Matches(h, p) ==
    IF mapper = "chat" THEN Contains(Strip(Lower(h)), p)
    ELSE h = p \/ Lower(h) = Lower(p)

PatternsOf == IF mapper = "chat" THEN mapping_patterns ELSE flask_mapping_patterns

\* the patterns, by position, that match some header of the sheet
Hitting(pats) ==
    {k \in 1..Len(pats) : \E i \in 1..Len(df_columns) : Matches(df_columns[i], pats[k])}

\* what the returned mapping holds for a target
MappedTo(target) ==
    {column_mapping[i][2] : i \in {j \in 1..Len(column_mapping) : column_mapping[j][1] = target}}

\* C13: for each canonical field the mapping holds a header of the sheet
\* matched by the first declared pattern that matches any header, and holds
\* nothing when no pattern matches; with 'Agent' and 'Owner: Full Name' in a
\* live_chat sheet, in either order, Agent is mapped to 'Owner: Full Name'.
C13_FirstPatternWins ==
    (pc = "done" /\ family = "map") =>
        /\ \A t \in 1..Len(PatternsOf) :
              IF Hitting(PatternsOf[t][2]) = {}
              THEN MappedTo(PatternsOf[t][1]) = {}
              ELSE \E i \in 1..Len(df_columns) :
                      /\ MappedTo(PatternsOf[t][1]) = {df_columns[i]}
                      /\ Matches(df_columns[i],
                                 PatternsOf[t][2][First(Hitting(PatternsOf[t][2]))])
        /\ (record_type = "live_chat"
              /\ Range(df_columns) = {"Agent", "Owner: Full Name"})
              => MappedTo("Agent") = {"Owner: Full Name"}

\* 'Agent' stands before 'Owner: Full Name' in a live_chat sheet and the
\* chat mapper has chosen 'Owner: Full Name'
C13_Witness ==
    /\ pc = "done"
    /\ mapper = "chat"
    /\ record_type = "live_chat"
    /\ df_columns = <<"Agent", "Owner: Full Name">>
    /\ MappedTo("Agent") = {"Owner: Full Name"}

----------------------------------------------------------------------------
(* Properties of the chat pipeline's channel constant *)

\* C14: in a returned master chat table every row has the Channel constant
\* of the record type of the sheet it came from (SF, LINE, WeChat,
\* Messaging), whatever columns and cells that sheet has.
C14_ChannelByRecordType ==
    (family = "chat" /\ Returned) =>
        \A i \in 1..NRows(master.frame) :
            master.frame.rows[i]["Channel"]
                = Str(channel_map(submitted[master.frame.ids[i][1]].detected_type))

----------------------------------------------------------------------------
(* Properties of the value coercions *)

\* the column as read and after the first pass
Raw == trail[1]
Coerced == trail[2]

Placeholders == {"nan", "NaT", "None", ""}

\* C15: text coercion gives null exactly for the cells whose string
\* rendering is 'nan', 'NaT', 'None' or empty (missing cells render as
\* those), and gives every other cell as its string rendering: a string as
\* it is, also when it looks numeric, a number as its digits.
C15_TextCoercion ==
    (coercer = "text" /\ Len(trail) >= 2) =>
        /\ Len(Coerced) = Len(Raw)
        /\ \A i \in 1..Len(Raw) :
              /\ IsNa(Raw[i]) => Coerced[i] = None
              /\ Raw[i].k = "str" =>
                    Coerced[i] = (IF Raw[i].s \in Placeholders THEN None ELSE Raw[i])
              /\ Raw[i] = IntV(12) => Coerced[i] = Str("12")
              /\ Raw[i] = IntV(44197) => Coerced[i] = Str("44197")
              /\ Raw[i] = Flt(4419750) => Coerced[i] = Str("44197.5")
              /\ IsNa(Coerced[i]) <=> AsStr(Raw[i]) \in Placeholders

\* a placeholder string became null next to a numeric-looking string that
\* was kept
C15_Witness ==
    /\ coercer = "text"
    /\ Len(trail) >= 2
    /\ \E i, j \in 1..Len(Raw) :
          /\ Raw[i] = Str("nan") /\ Coerced[i] = None
          /\ Raw[j] = Str("12") /\ Coerced[j] = Str("12")

\* C16 as stated: text coercion leaves every cell whose source value is a
\* non-empty string non-null.
C16_NonEmptyStringKept ==
    (coercer = "text" /\ Len(trail) >= 2) =>
        \A i \in 1..Len(Raw) :
            (Raw[i].k = "str" /\ Raw[i].s # "") => ~IsNa(Coerced[i])

\* C16, amended: text coercion leaves every cell whose source value is a
\* non-empty string other than the tokens 'nan', 'NaT', 'None' non-null,
\* and equal to the source string.
C16_GenuineTextKept ==
    (coercer = "text" /\ Len(trail) >= 2) =>
        \A i \in 1..Len(Raw) :
            (Raw[i].k = "str" /\ Raw[i].s \notin Placeholders)
                => (~IsNa(Coerced[i]) /\ Coerced[i] = Raw[i])

\* a blank-looking string and a word came through text coercion
C16_Witness ==
    /\ coercer = "text"
    /\ Len(trail) >= 2
    /\ \E i, j \in 1..Len(Raw) :
          /\ Raw[i] = Str(" ") /\ Coerced[i] = Str(" ")
          /\ Raw[j] = Str("abc") /\ Coerced[j] = Str("abc")

\* C17: a further pass of the numeric coercion, or of the text coercion,
\* over a column it has coerced leaves the column as it is.
C17_Idempotent ==
    coercer \in {"text", "numeric"} =>
        \A k \in 2..(Len(trail) - 1) : trail[k + 1] = trail[k]

\* the first pass changed the column and the second pass was run
C17_Witness ==
    /\ coercer \in {"text", "numeric"}
    /\ Len(trail) >= 3
    /\ Coerced # Raw
    /\ \E i \in 1..Len(Coerced) : IsNa(Coerced[i])
    /\ \E i \in 1..Len(Coerced) : ~IsNa(Coerced[i])

\* the number a cell of the pool parses as, in hundredths; <<>> when it is
\* no number
NumberIn(c) ==
    CASE c \in {Str("12"), IntV(12)} -> <<1200>>
      [] c = Str("12.5") -> <<1250>>
      [] c = IntV(44197) -> <<4419700>>
      [] c = Flt(4419750) -> <<4419750>>
      [] OTHER -> <<>>

\* C18: numeric coercion gives, position by position, the number for a cell
\* that parses as one and null for every other cell; ['12', 'abc', '', None]
\* becomes [12.0, null, null, null].
C18_NumericCoercion ==
    (coercer = "numeric" /\ Len(trail) >= 2) =>
        /\ Len(Coerced) = Len(Raw)
        /\ \A i \in 1..Len(Raw) :
              Coerced[i] = (IF NumberIn(Raw[i]) = <<>> THEN NaN
                            ELSE Flt(NumberIn(Raw[i])[1]))
        /\ Raw = <<Str("12"), Str("abc"), Str(""), None>>
              => Coerced = <<Flt(1200), NaN, NaN, NaN>>

C18_Witness ==
    /\ coercer = "numeric"
    /\ Len(trail) >= 2
    /\ Raw = <<Str("12"), Str("abc"), Str(""), None>>
    /\ Coerced = <<Flt(1200), NaN, NaN, NaN>>

DateCoercers == {"chat_date", "case_date", "rating_date"}

\* C19: date coercion of a numeric cell n gives the day n days after
\* 1899-12-30, at midnight when n is whole; 44197 gives 2021-01-01.
C19_SerialEpoch ==
    (coercer \in DateCoercers /\ Len(trail) >= 2) =>
        \A i \in 1..Len(Raw) :
            /\ Raw[i].k = "int" =>
                  /\ Coerced[i].k = "ts"
                  /\ Coerced[i].min = 0
                  /\ Coerced[i].day - SerialOf(1899, 12, 30) = Raw[i].n
                  /\ Raw[i].n = 44197 => CivilOf(Coerced[i].day) = <<2021, 1, 1>>
            /\ Raw[i].k = "float" =>
                  /\ Coerced[i].k = "ts"
                  /\ Coerced[i].day - SerialOf(1899, 12, 30) = Raw[i].h \div 100

C19_Witness ==
    /\ coercer = "chat_date"
    /\ Len(trail) >= 2
    /\ \E i \in 1..Len(Raw) :
          /\ Raw[i] = IntV(44197)
          /\ CivilOf(Coerced[i].day) = <<2021, 1, 1>>

\* C20: a date string that is a date under the day-first and under the
\* month-first reading is coerced to the day-first one by the chat, the case
\* and the rating pipeline: '03/04/2021' is the 3rd of April.
C20_DayFirst ==
    (coercer \in DateCoercers /\ Len(trail) >= 2) =>
        \A i \in 1..Len(Raw) :
            Raw[i] \in {Str("03/04/2021"), Str("03/04/2021 10:30")} =>
                /\ Coerced[i].k = "ts"
                /\ CivilOf(Coerced[i].day) = <<2021, 4, 3>>

----------------------------------------------------------------------------
(* Properties of the coercions inside the chat and the case builder *)

\* the position in all_data of the frame made from the p-th sheet
RankOf(p) == Cardinality({q \in 1..p : Qualifies(q)})

\* the chat sheet as it stands before the numerical and the date loops:
\* mapped, with its type fields and the required columns
ChatBeforeCoercion(df, t) ==
    AddMissing(ChatTypeFields(ApplyMapping(df, smart_chat_column_mapping(df.columns, t)), t),
               chat_required_columns)

\* the numerical loop, the date loop and the date parts of the chat builder
ChatCoercions(t) ==
    ChatPrimaryDateParts(ChatDates(MapColumns(t, chat_numerical_columns, ToNumeric)))

\* the p-th sheet where the coercions of its builder find it, and the
\* coercions of that builder
BeforeCoercion(p) ==
    IF family = "chat"
    THEN ChatBeforeCoercion(submitted[p].data, submitted[p].detected_type)
    ELSE submitted[p].data

Coercions(f) == IF family = "chat" THEN ChatCoercions(f) ELSE TransformCase(f)

NumericColumnsOf(f) ==
    IF family = "chat" THEN Range(chat_numerical_columns) \cap Range(f.columns)
    ELSE Range(case_numerical_columns) \cap Range(f.columns)

DateColumnsOf(f) ==
    IF family = "chat" THEN Range(chat_date_columns(f))
    ELSE Range(actual_date_columns) \cap Range(f.columns)

\* the columns the builder writes apart from the numerical and date ones
WrittenColumns ==
    IF family = "chat" THEN {"Month", "Week", "Day", "Hours"}
    ELSE {"Case Number", "case_created_date", "Month", "Week", "Day", "Hours only",
          "Hours Range"} \cup Range(text_columns)

\* a cell that holds text which is no number, no date
NoNumber(c) == c.k = "str" /\ ParseFloat(c.s) = NaN
NoDate(c) == c.k = "str" /\ ParseDate(c.s, TRUE) = NaT /\ ParseDate(c.s, FALSE) = NaT

\* the cell at row i, column c of f fails its coercion
Fails(f, i, c) ==
    \/ c \in NumericColumnsOf(f) /\ NoNumber(f.rows[i][c])
    \/ c \in DateColumnsOf(f) /\ NoDate(f.rows[i][c])

\* the frame with every failing cell emptied beforehand
Emptied(f) ==
    [f EXCEPT !.rows =
        List([i \in 1..NRows(f) |->
                 Row([c \in Range(f.columns) |->
                         IF Fails(f, i, c) THEN NaN ELSE f.rows[i][c]])])]

\* the coerced frame made from the p-th sheet
CoercedSheet(p) == all_data[RankOf(p)]

\* C21: in the chat and the case builder a cell of a numerical or date
\* column that does not parse comes out null; its row is in the coerced
\* frame and in the returned table; every cell of the coerced frame is what
\* it would be had the failing cell been empty in the sheet, and the columns
\* the builder does not write are as they were; the builder returns a table.
C21_FailureStaysInCell ==
    family \in {"chat", "case"} =>
        /\ \A p \in 1..(pos - 1) :
              Qualifies(p) =>
                 /\ CoercedSheet(p) = Coercions(BeforeCoercion(p))
                 /\ CoercedSheet(p) = Coercions(Emptied(BeforeCoercion(p)))
                 /\ CoercedSheet(p).ids = submitted[p].data.ids
                 /\ \A i \in 1..NRows(BeforeCoercion(p)) :
                       \A c \in Range(BeforeCoercion(p).columns) :
                          /\ Fails(BeforeCoercion(p), i, c)
                                => IsNa(CoercedSheet(p).rows[i][c])
                          /\ c \notin (NumericColumnsOf(BeforeCoercion(p))
                                        \cup DateColumnsOf(BeforeCoercion(p))
                                        \cup WrittenColumns)
                                => CoercedSheet(p).rows[i][c] = BeforeCoercion(p).rows[i][c]
        /\ (pc = "done" /\ \E p \in 1..Len(submitted) : Qualifies(p)) =>
              /\ master.kind = "table"
              /\ \A r \in 1..NRows(master.frame) :
                    \A c \in Range(master.frame.columns)
                               \cap Range(BeforeCoercion(master.frame.ids[r][1]).columns) :
                       Fails(BeforeCoercion(master.frame.ids[r][1]), master.frame.ids[r][2], c)
                          => IsNa(master.frame.rows[r][c])

\* a returned table with a row whose sheet held text in a numerical column
\* and a row whose sheet held text in a date column, each next to a cell
\* that came through
C21_Witness ==
    /\ family \in {"chat", "case"} /\ Returned
    /\ \E r \in 1..NRows(master.frame) :
          \E c, d \in Range(master.frame.columns)
                        \cap Range(BeforeCoercion(master.frame.ids[r][1]).columns) :
             /\ c \in NumericColumnsOf(BeforeCoercion(master.frame.ids[r][1]))
             /\ Fails(BeforeCoercion(master.frame.ids[r][1]), master.frame.ids[r][2], c)
             /\ IsNa(master.frame.rows[r][c])
             /\ ~IsNa(master.frame.rows[r][d])
    /\ \E r \in 1..NRows(master.frame) :
          \E c, d \in Range(master.frame.columns)
                        \cap Range(BeforeCoercion(master.frame.ids[r][1]).columns) :
             /\ c \in DateColumnsOf(BeforeCoercion(master.frame.ids[r][1]))
             /\ Fails(BeforeCoercion(master.frame.ids[r][1]), master.frame.ids[r][2], c)
             /\ IsNa(master.frame.rows[r][c])
             /\ ~IsNa(master.frame.rows[r][d])

----------------------------------------------------------------------------
(* Properties of the rating builder's column gaps *)

\* the statements of the transformer of a rating slot
RatingFields(slot) ==
    CASE slot = "chat" -> chat_rating_fields
      [] slot = "case" -> case_rating_fields
      [] slot = "messaging" -> messaging_rating_fields
      [] slot = "wechat" -> wechat_rating_fields
      [] OTHER -> <<>>

\* the column of the sheet a statement reads
SourceColumn(stmt) == IF stmt[3] = "outcome_to_rating" THEN "Outcome" ELSE stmt[3]

\* the canonical fields of the p-th rating sheet whose source column the
\* sheet does not have
Gaps(p) ==
    {RatingFields(RatingSlots[p])[k][1] :
        k \in {j \in 1..Len(RatingFields(RatingSlots[p])) :
                  /\ RatingFields(RatingSlots[p])[j][2] = "get"
                  /\ ~HasCol(submitted[p].data,
                             SourceColumn(RatingFields(RatingSlots[p])[j]))}}

\* the chat, case, messaging and WeChat rating sheets that were supplied
SuppliedSheets == {p \in 1..4 : submitted[p].supplied}

\* C22: when the rating builder is done with at least one chat, case,
\* messaging or WeChat rating sheet supplied, it has returned a table; every
\* row of every such sheet is in it; and a canonical field whose source
\* column a sheet lacks is null in that sheet's rows.
C22_MappingGapIsolated ==
    (family = "rating" /\ pc = "done" /\ SuppliedSheets # {}) =>
        /\ master.kind = "table"
        /\ \A p \in SuppliedSheets :
              \A i \in 1..NRows(submitted[p].data) :
                 \E r \in 1..NRows(master.frame) :
                    /\ master.frame.ids[r] = <<p, i>>
                    /\ \A c \in Gaps(p) : IsNa(master.frame.rows[r][c])

----------------------------------------------------------------------------
(* Properties of the manual override *)

DashboardChatTypes == {"live_chat", "line_chat", "wechat_chat"}

\* the p-th upload has a record type chosen by hand
Overridden(p) == submitted[p].manual_type # "auto-detected"

\* what the classifier says about the p-th upload
Classified(p) ==
    dashboard_detect_data_type(submitted[p].data.columns, submitted[p].filename)

\* the rows of the returned table that come from the p-th sheet
RowsFrom(p) == {r \in 1..NRows(master.frame) : master.frame.ids[r][1] = p}

\* the row holds, in every column of t it has, the cell of row i of t
SameCells(row, t, i) ==
    \A c \in Range(t.columns) \cap DOMAIN row : row[c] = t.rows[i][c]

\* every row of the sheet is in the returned table with the cells of t
MergedAs(p, t) ==
    /\ NRows(t) = NRows(submitted[p].data)
    /\ \A i \in 1..NRows(t) :
          \E r \in RowsFrom(p) :
             /\ master.frame.ids[r] = <<p, i>>
             /\ SameCells(master.frame.rows[r], t, i)

\* C23: in the dashboard a record type chosen by hand replaces the detected
\* one, and the returned table holds the sheet's rows exactly as the
\* transformation for the chosen type makes them (none when the chosen type
\* is no chat type), whatever the classifier says about the sheet; the chat
\* and the case builder transform every sheet as the type the caller gave.
C23_OverrideTakesPrecedence ==
    /\ (family = "dashboard" /\ pc # "dashboard") =>
          \A p \in 1..Len(submitted) :
             Overridden(p) => file_data_list[p].detected_type = submitted[p].manual_type
    /\ (family = "dashboard" /\ Returned) =>
          \A p \in 1..Len(submitted) :
             Overridden(p) =>
                IF submitted[p].manual_type \in DashboardChatTypes
                THEN MergedAs(p, flexible_transform_chat(submitted[p].data,
                                                         submitted[p].manual_type))
                ELSE RowsFrom(p) = {}
    /\ family \in {"chat", "case"} =>
          \A p \in 1..(pos - 1) :
             Qualifies(p) =>
                all_data[RankOf(p)] =
                   (IF family = "chat"
                    THEN TransformChat(submitted[p].data, submitted[p].detected_type)
                    ELSE TransformCase(submitted[p].data))
    /\ (family \in {"chat", "case"} /\ Returned) =>
          \A p \in 1..Len(submitted) : ~Qualifies(p) => RowsFrom(p) = {}

\* a returned dashboard table with the rows of a sheet the classifier takes
\* for live_chat and the user has made wechat_chat, next to a sheet the
\* classifier takes for live_chat and the user has made case_data
C23_Witness ==
    /\ family = "dashboard" /\ Returned
    /\ \E p, q \in 1..Len(submitted) :
          /\ Classified(p) = "live_chat"
          /\ submitted[p].manual_type = "wechat_chat"
          /\ RowsFrom(p) # {}
          /\ \A r \in RowsFrom(p) : master.frame.rows[r]["Channel"] = Str("WeChat")
          /\ Classified(q) = "live_chat"
          /\ submitted[q].manual_type = "case_data"
          /\ RowsFrom(q) = {}


(***************************************************************************)
(* Properties of the builders' effect on their inputs                      *)
(***************************************************************************)

\* the sheet the caller holds at position p has the columns and the cells it
\* was submitted with
Untouched(p) ==
    /\ file_data_list[p].data.columns = submitted[p].data.columns
    /\ file_data_list[p].data.rows = submitted[p].data.rows

\* C24: the master-table builders are pure with respect to their inputs:
\* after process_chat_files or process_case_files returns, every input sheet
\* passed in has the same columns and the same cell values as before the call.
C24_InputsUntouched ==
    (pc = "done" /\ family \in {"chat", "case"})
        => \A p \in 1..Len(submitted) : Untouched(p)

\* the part of C24 the chat builder keeps: it works on df.copy()
C24_ChatInputsUntouched ==
    (pc = "done" /\ family = "chat")
        => \A p \in 1..Len(submitted) : Untouched(p)


(***************************************************************************)
(* Properties of the fields fixed by the record type                       *)
(***************************************************************************)

\* the fields process_chat_files blanks for a record type
BlankedFields(t) ==
    IF t = "messaging" THEN {"Wait Time"} ELSE {"Request Date", "Close Date"}

\* the sheet at p arrives with a value in field c, under that very name
SourceHas(p, c) ==
    /\ HasCol(submitted[p].data, c)
    /\ \E i \in 1..NRows(submitted[p].data) : ~IsNa(submitted[p].data.rows[i][c])

\* C25: every master-chat row contributed by a messaging sheet has a null
\* 'Wait Time', and every row contributed by a live_chat, line_chat or
\* wechat_chat sheet has a null 'Request Date' and a null 'Close Date', even
\* when the source sheet has a column that resolves to those fields.
C25_TypeFieldsBlank ==
    (Returned /\ family = "chat")
        => \A k \in 1..NRows(master.frame) :
               \A c \in BlankedFields(submitted[master.frame.ids[k][1]].detected_type) :
                   /\ HasCol(master.frame, c)
                   /\ IsNa(master.frame.rows[k][c])

\* a returned chat table holds a messaging row whose sheet came with a wait
\* time and a row of another chat type whose sheet came with a request date
C25_Witness ==
    /\ Returned /\ family = "chat"
    /\ \E p \in 1..Len(submitted) :
           /\ submitted[p].detected_type = "messaging"
           /\ SourceHas(p, "Wait Time")
           /\ \E k \in 1..NRows(master.frame) : master.frame.ids[k][1] = p
    /\ \E p \in 1..Len(submitted) :
           /\ submitted[p].detected_type \in ChatTypes \ {"messaging"}
           /\ SourceHas(p, "Request Date")
           /\ \E k \in 1..NRows(master.frame) : master.frame.ids[k][1] = p


(***************************************************************************)
(* Properties of the hour range                                            *)
(***************************************************************************)

\* the hours of the day on a 12-hour clock, from midnight on
ClockNames ==
    <<"12 AM", "1 AM", "2 AM", "3 AM", "4 AM", "5 AM", "6 AM", "7 AM", "8 AM",
      "9 AM", "10 AM", "11 AM", "12 PM", "1 PM", "2 PM", "3 PM", "4 PM", "5 PM",
      "6 PM", "7 PM", "8 PM", "9 PM", "10 PM", "11 PM">>

\* the hour range that starts at hour h of the day
OneHourFrom(h) == Str(ClockNames[h + 1] \o " - " \o ClockNames[((h + 1) % 24) + 1])

\* the column that holds the hour range in the master table of the family
HourRangeField == IF family = "chat" THEN "Hours" ELSE "Hours Range"

\* the transformed sheet that holds the row tagged id
TransformedSheet(id) ==
    all_data[CHOOSE j \in 1..Len(all_data) :
                 \E i \in 1..NRows(all_data[j]) : all_data[j].ids[i] = id]

\* the primary date column of a transformed sheet, <<>> when it has none
PrimaryDateCol(f) ==
    IF family = "chat" THEN chat_primary_date_col(f) ELSE case_primary_date_col(f)

\* the primary date of the row tagged id, NaT when its sheet has none
PrimaryDateIn(row, col) == IF col = <<>> THEN NaT ELSE row[col[1]]

PrimaryDate(id) == PrimaryDateIn(TransformedRow(id), PrimaryDateCol(TransformedSheet(id)))

\* the hour range of a master row is the one its primary date asks for
HourRangeFits(range, date) ==
    IF date.k = "ts" THEN range = OneHourFrom(date.min \div 60) ELSE IsNa(range)

\* C26: for every row whose primary date is non-null with hour of day h the
\* derived hour range is '<h on the 12-hour clock, no leading zero, AM/PM> -
\* <(h+1) mod 24 in the same form>', one hour long; a row whose primary date
\* is null has a null hour range.
C26_HourRange ==
    (Returned /\ family \in {"chat", "case"})
        => \A k \in 1..NRows(master.frame) :
               HourRangeFits(master.frame.rows[k][HourRangeField],
                             PrimaryDate(master.frame.ids[k]))

\* a returned table has a row in the hour before midnight, a row in the hour
\* after noon, and a row without a primary date
C26_Witness ==
    /\ Returned /\ family \in {"chat", "case"}
    /\ \E k \in 1..NRows(master.frame) :
           /\ PrimaryDate(master.frame.ids[k]).k = "ts"
           /\ master.frame.rows[k][HourRangeField] = Str("11 PM - 12 AM")
    /\ \E k \in 1..NRows(master.frame) :
           /\ PrimaryDate(master.frame.ids[k]).k = "ts"
           /\ master.frame.rows[k][HourRangeField] = Str("12 PM - 1 PM")
    /\ \E k \in 1..NRows(master.frame) :
           /\ IsNa(PrimaryDate(master.frame.ids[k]))
           /\ IsNa(master.frame.rows[k][HourRangeField])


(***************************************************************************)
(* Properties of the mappers' way of matching                              *)
(***************************************************************************)

\* the patterns that are one simple name
SimpleNames == {"agent", "id", "number", "team"}

\* exact for simple names, substring for composite names
MatchesAsNamed(h, p) ==
    IF Lower(p) \in SimpleNames
    THEN Strip(Lower(h)) = Lower(p)
    ELSE Contains(Strip(Lower(h)), Lower(p))

\* every header the mapping holds for target t is matched, exactly for a
\* simple name and as a substring for a composite one, by a pattern of t
MappedAsNamed(t) ==
    \A h \in MappedTo(PatternsOf[t][1]) :
        \E k \in 1..Len(PatternsOf[t][2]) : MatchesAsNamed(h, PatternsOf[t][2][k])

\* C27: a simple-name pattern ('agent', 'id', 'number', 'team') matches a
\* header only when the header equals it up to case, only composite patterns
\* match by substring; a header that merely contains a simple name, like
\* 'Agent Message Count' for 'agent', is never mapped to that field.
C27_SimpleNamesExact ==
    (pc = "done" /\ family = "map")
        => \A t \in 1..Len(PatternsOf) : MappedAsNamed(t)

\* the part of C27 the flask mapper keeps: it matches every pattern by
\* equality up to case
C27_FlaskSimpleNamesExact ==
    (pc = "done" /\ family = "map" /\ mapper = "flask")
        => \A t \in 1..Len(PatternsOf) : MappedAsNamed(t)


(***************************************************************************)
(* Properties of the routed and the single-pass classifier                 *)
(***************************************************************************)

\* no required, strong or channel fragment of the messaging rule is found in
\* the headers or in the filename
NoMessagingFragment ==
    ScoreRuleNoGate(messaging_rule,
                    List([i \in 1..Len(df_columns) |-> Strip(Lower(df_columns[i]))]),
                    filename).indicators = <<>>

\* main.detect_data_type has returned
Routed == pc = "done" /\ family = "classify" /\ detector \in Routers

\* what cs_data_processor_flask.detect_data_type answers for the same sheet
SinglePass == DetectedType(FlaskRules, df_columns, filename)

\* C28: for every header set and filename that match no messaging fragment,
\* the routed classifier main.detect_data_type (chat detector first, case
\* detector only when the chat result is unknown) returns the same record
\* type as the single-pass classifier that scores line_chat, wechat_chat,
\* live_chat and case_data together and picks the highest confidence.
C28_RoutedEqualsSinglePass ==
    (Routed /\ NoMessagingFragment) => detected = SinglePass

\* the part of C28 that holds: the two agree whenever the router answers
\* case_data or unknown
C28_AgreeOutsideChatAnswers ==
    (Routed /\ NoMessagingFragment /\ detected \notin ChatTypes) => detected = SinglePass


(***************************************************************************)
(* Properties of the messaging duration                                    *)
(***************************************************************************)

\* 60 times a coerced number, null for a null
SixtyTimes(c) == IF c.k = "float" THEN Flt(60 * c.h) ELSE NaN

\* the cell of column c the master row k had in the sheet it came from
SourceCell(k, c) ==
    submitted[master.frame.ids[k][1]].data.rows[master.frame.ids[k][2]][c]

\* the master row k comes from a messaging sheet with a 'Duration (Minutes)'
FromMessagingWithDuration(k) ==
    /\ submitted[master.frame.ids[k][1]].detected_type = "messaging"
    /\ HasCol(submitted[master.frame.ids[k][1]].data, "Duration (Minutes)")

\* C29: for a messaging sheet that has a 'Duration (Minutes)' column, every
\* output row's 'Chat Duration (sec)' is 60 times the numeric coercion of the
\* row's 'Duration (Minutes)' cell, and null when the cell does not coerce to
\* a number, whether the cell holds a number or numeric text.
C29_DurationInSeconds ==
    (Returned /\ family = "chat")
        => \A k \in 1..NRows(master.frame) :
               FromMessagingWithDuration(k)
                   => master.frame.rows[k]["Chat Duration (sec)"]
                          = SixtyTimes(ToNumeric(SourceCell(k, "Duration (Minutes)")))

\* the part of C29 that holds: the cells that are numbers or are empty
C29_NumberCellsInSeconds ==
    (Returned /\ family = "chat")
        => \A k \in 1..NRows(master.frame) :
               (/\ FromMessagingWithDuration(k)
                /\ SourceCell(k, "Duration (Minutes)").k # "str")
                   => master.frame.rows[k]["Chat Duration (sec)"]
                          = SixtyTimes(ToNumeric(SourceCell(k, "Duration (Minutes)")))


(***************************************************************************)
(* Properties of the null cells of the case text fields                    *)
(***************************************************************************)

\* the master row k came with an empty cell in column c of its sheet
MissingInSource(k, c) ==
    /\ HasCol(submitted[master.frame.ids[k][1]].data, c)
    /\ IsNa(SourceCell(k, c))

\* in a returned case table the fields of cols are null wherever the source
\* cell is missing
NullsKept(cols) ==
    (Returned /\ family = "case")
        => \A k \in 1..NRows(master.frame) :
               \A c \in cols \cap Range(master.frame.columns) :
                   MissingInSource(k, c) => IsNa(master.frame.rows[k][c])

\* C30: null cells of case text fields stay null: for every case sheet row
\* whose source 'Case Number' (or any other text-typed canonical case field)
\* is missing, the master-case cell is null and never a placeholder string
\* such as 'nan' or 'None'.
C30_NullTextStaysNull == NullsKept({"Case Number"} \cup Range(text_columns))

\* the part of C30 that holds: the fields of text_columns
C30_NullTextColumnsStayNull == NullsKept(Range(text_columns))

====
